---- MODULE Spec2Model ----
(***************************************************************************)
(* Model of the multi-stage diff engine of go-semantic-diff                *)
(* (diffengine.go, contentblock.go, similarity kernel).                    *)
(*                                                                         *)
(* A text is a sequence of one-character strings.  PerformDiff is a        *)
(* sequential pipeline; each stage (and each iteration of the two loops    *)
(* whose iterations the properties speak about) is one action, and pc is   *)
(* the position of the call.                                               *)
(***************************************************************************)
EXTENDS Integers, Sequences, FiniteSets, TLC

(***************************************************************************)
(* Characters                                                              *)
(***************************************************************************)
NL == "\n"
SP == " "
\* vertical tab (U+000B), written as a token: white space for
\* strings.TrimSpace, not matched by the regular expression class \s
\* (which is [\t\n\f\r ])
VT == "VT"

\* the class \s of package regexp
RegexSpace == {SP, NL, "\t", "\f", "\r"}

\* unicode.IsSpace restricted to the characters used here
UnicodeSpace == RegexSpace \cup {VT}

\* strings.ToLower on one character
LowerRune(c) ==
  CASE c = "A" -> "a" [] c = "B" -> "b" [] c = "C" -> "c" [] c = "D" -> "d"
    [] c = "E" -> "e" [] c = "F" -> "f" [] c = "G" -> "g" [] c = "H" -> "h"
    [] c = "I" -> "i" [] c = "J" -> "j" [] c = "K" -> "k" [] c = "L" -> "l"
    [] c = "M" -> "m" [] c = "N" -> "n" [] c = "O" -> "o" [] c = "X" -> "x"
    [] OTHER -> c

(***************************************************************************)
(* String helpers (package strings, package regexp)                        *)
(***************************************************************************)
ToLower(text) == [i \in 1..Len(text) |-> LowerRune(text[i])]

\* strings.TrimSpace
TrimSpace(text) ==
  LET keep == {i \in 1..Len(text) : text[i] \notin UnicodeSpace}
  IN IF keep = {} THEN <<>>
     ELSE LET first == CHOOSE i \in keep : \A k \in keep : i <= k
              last  == CHOOSE i \in keep : \A k \in keep : k <= i
          IN SubSeq(text, first, last)

\* the elements of a set of positions, in ascending order
Ascending(S) ==
  LET rank == [i \in S |-> Cardinality({j \in S : j <= i})]
  IN [k \in 1..Cardinality(S) |-> CHOOSE i \in S : rank[i] = k]

\* faulty variant of ReplaceSpaceRuns: the \s characters are replaced two
\* at a time, so that a run of three or more leaves several spaces
ReplaceSpacePairs(text) ==
  LET start(i) == Cardinality({j \in 1..i : \A k \in j..i : text[k] \in RegexSpace})
      keep == Ascending({i \in 1..Len(text) :
                           \/ text[i] \notin RegexSpace
                           \/ start(i) % 2 = 1})
  IN [k \in 1..Len(keep) |->
        IF text[keep[k]] \in RegexSpace THEN SP ELSE text[keep[k]]]

\* regexp `\s+` ReplaceAllString(text, " "): every maximal run of \s
\* characters becomes one space (the run is replaced where it starts)
ReplaceSpaceRuns(text) ==
  LET keep == Ascending({i \in 1..Len(text) :
                           \/ text[i] \notin RegexSpace
                           \/ i = 1
                           \/ text[i-1] \notin RegexSpace})
  IN [k \in 1..Len(keep) |->
        IF text[keep[k]] \in RegexSpace THEN SP ELSE text[keep[k]]]

NormalizeTextBlock(text) == TrimSpace(ReplaceSpaceRuns(ToLower(text)))

\* SHA-256 hex digest, modelled as an injective tagging of its argument
Sha256Hex(text) == <<"sha256", text>>

CalculateLineChecksum(lineText) == Sha256Hex(NormalizeTextBlock(lineText))

CalculateBlockChecksum(blockText) == Sha256Hex(NormalizeTextBlock(blockText))

\* strings.Join
RECURSIVE Join(_, _)
Join(strs, sep) ==
  IF Len(strs) = 0 THEN <<>>
  ELSE IF Len(strs) = 1 THEN strs[1]
  ELSE strs[1] \o sep \o Join(Tail(strs), sep)

\* strings.ReplaceAll(content, "\r\n", "\n"): the carriage return of
\* every "\r\n" is dropped
ReplaceCRLF(text) ==
  LET keep == Ascending({i \in 1..Len(text) :
                           ~(text[i] = "\r" /\ i < Len(text) /\ text[i+1] = NL)})
  IN [k \in 1..Len(keep) |-> text[keep[k]]]

\* strings.Split(text, "\n"): the pieces between the newlines, always at
\* least one
SplitLines(text) ==
  LET nl == Ascending({i \in 1..Len(text) : text[i] = NL})
  IN [k \in 1..(Len(nl) + 1) |->
        SubSeq(text,
               IF k = 1 THEN 1 ELSE nl[k-1] + 1,
               IF k > Len(nl) THEN Len(text) ELSE nl[k] - 1)]

\* strings.Count(text, "\n")
CountNL(text) == Cardinality({i \in 1..Len(text) : text[i] = NL})

\* end of the leftmost-first match of `\n\s*\n` starting at position p
\* (0 when there is no match at p): \s* is greedy, so the match ends at the
\* last newline of the maximal run of \s characters that follows p
MatchEndAt(text, p) ==
  IF text[p] # NL THEN 0
  ELSE LET ends == {q \in (p+1)..Len(text) :
                      /\ text[q] = NL
                      /\ \A r \in (p+1)..q : text[r] \in RegexSpace}
       IN IF ends = {} THEN 0
          ELSE CHOOSE q \in ends : \A r \in ends : r <= q

\* paragraphSeparatorForGapsContentBlock.Split(text, -1): the pieces
\* between the successive non-overlapping leftmost matches, searched from
\* position beg on
RECURSIVE SplitFrom(_, _)
SplitFrom(text, beg) ==
  LET starts == {p \in beg..Len(text) : MatchEndAt(text, p) # 0}
  IN IF starts = {} THEN <<SubSeq(text, beg, Len(text))>>
     ELSE LET p == CHOOSE q \in starts : \A r \in starts : q <= r
          IN <<SubSeq(text, beg, p-1)>> \o SplitFrom(text, MatchEndAt(text, p) + 1)

SplitParagraphs(text) ==
  IF Len(text) = 0 THEN << <<>> >> ELSE SplitFrom(text, 1)

(***************************************************************************)
(* float32.  A float32 value v with |v| <= 1 that is a multiple of 2^-28   *)
(* is kept as the integer v * 2^28; these are all the values that occur    *)
(* for texts of at most 31 characters.                                     *)
(***************************************************************************)
Min2(a, b) == IF a < b THEN a ELSE b

\* the float32 1.0
F32One == 2^28

\* n >= 0 rounded to 24 significant bits, ties to even
RoundTo24(n) ==
  IF n < 2^24 THEN n
  ELSE LET h == CHOOSE k \in 24..30 : 2^k <= n /\ n < 2^(k+1)
           ulp == 2^(h - 23)
           r == n % ulp
           down == n - r
       IN IF 2 * r > ulp THEN down + ulp
          ELSE IF 2 * r < ulp THEN down
          ELSE IF (down \div ulp) % 2 = 0 THEN down ELSE down + ulp

\* float32(n) / float32(m) for integers 0 <= n <= m, 1 <= m <= 31: the
\* quotient rounded to 24 significant bits, ties to even
F32Div(n, m) ==
  IF n = 0 THEN 0
  ELSE LET s == CHOOSE k \in 23..28 : 2^23 * m <= n * 2^k /\ n * 2^k < 2^24 * m
           q == (n * 2^s) \div m
           r == (n * 2^s) % m
           mant == IF 2 * r > m THEN q + 1
                   ELSE IF 2 * r < m THEN q
                   ELSE IF q % 2 = 0 THEN q ELSE q + 1
       IN mant * 2^(28 - s)

\* the float32 difference 1.0 - x for a float32 0 <= x <= 1
F32OneMinus(x) == RoundTo24(F32One - x)

\* float32(t) for the threshold t = n/d given on the command line
F32OfFraction(n, d) == F32Div(n, d)

(***************************************************************************)
(* Similarity kernel                                                       *)
(***************************************************************************)

\* the value e, computed after the value v (the arguments of an operator
\* are otherwise computed only when they are first used)
After(v, e) == IF v = v THEN e ELSE e

MinOf(S) == CHOOSE x \in S : \A y \in S : x <= y

\* one row of the edit-distance table: prev is the row of a[1..i-1], the
\* result is the row of a[1..i] (entry k+1 = distance to b[1..k]).  Entry
\* k+1 is the least of: a deletion (prev[k+1] + 1), a substitution or
\* match (prev[k] + cost), and an insertion after entry k; the chain of
\* insertions is unfolded into the minimum over where it starts.
LevRow(prev, ai, b) ==
  LET base == [k \in 0..Len(b) |->
                 IF k = 0 THEN prev[1] + 1
                 ELSE Min2(prev[k+1] + 1,
                           prev[k] + (IF ai = b[k] THEN 0 ELSE 1))]
  IN [k1 \in 1..(Len(b) + 1) |->
        MinOf({base[j] + (k1 - 1 - j) : j \in 0..(k1 - 1)})]

RECURSIVE LevRows(_, _, _, _)
LevRows(a, b, i, prev) ==
  IF i > Len(a) THEN prev[Len(b) + 1]
  ELSE LET row == LevRow(prev, a[i], b)
       IN After(row, LevRows(a, b, i+1, row))

\* levenshtein.ComputeDistance
ComputeDistance(a, b) == LevRows(a, b, 1, [k \in 1..(Len(b)+1) |-> k - 1])

\* a character that UTF-8 encodes in two bytes (U+00E9), written as a token
EAcute == "e-acute"

\* len(text): the length of a Go string is its number of bytes
ByteLen(text) ==
  Len(text) + Cardinality({i \in 1..Len(text) : text[i] = EAcute})

\* the similarity of two normalised texts, as a float32 scaled by 2^28:
\* the distance counts characters (the library works on runes), the
\* lengths count bytes
TextSimilarityNormalized(textA, textB) ==
  IF ByteLen(textA) = 0 /\ ByteLen(textB) = 0 THEN F32One
  ELSE IF ByteLen(textA) = 0 \/ ByteLen(textB) = 0 THEN 0
  ELSE LET dist == ComputeDistance(textA, textB)
           maxLen == IF ByteLen(textB) > ByteLen(textA) THEN ByteLen(textB)
                     ELSE ByteLen(textA)
       IN F32OneMinus(F32Div(dist, maxLen))

(***************************************************************************)
(* DiffType (iota order) and the two minimum lengths                       *)
(***************************************************************************)
Added == 0
Deleted == 1
Modified == 2
Moved == 3
Unchanged == 4

MinMegaBlockLength == 3
MinParagraphLinesForSemanticMatch == 3

\* a nil *ContentBlock
Nil == [ID |-> -1]

(***************************************************************************)
(* Stage 1: line records                                                   *)
(***************************************************************************)
getLinesWithInfo(content, fileOrigin) ==
  LET rawLines == SplitLines(ReplaceCRLF(content))
  IN [i \in 1..Len(rawLines) |->
        [OriginalText |-> rawLines[i],
         Checksum |-> CalculateLineChecksum(rawLines[i]),
         OriginalLineNum |-> i,
         FileOrigin |-> fileOrigin,
         IsPartOfMega |-> FALSE]]

(***************************************************************************)
(* Stage 2: greedy megablock matching                                      *)
(***************************************************************************)
\* the inner k-loop of findNextGreedyMegaMatch: length of the run of
\* unconsumed, checksum-equal line pairs that starts at (i, j)
RECURSIVE RunLength(_, _, _, _, _)
RunLength(linesA, linesB, i, j, k) ==
  IF i + k > Len(linesA) \/ j + k > Len(linesB) THEN k
  ELSE IF linesA[i+k].IsPartOfMega \/ linesB[j+k].IsPartOfMega THEN k
  ELSE IF linesA[i+k].Checksum = linesB[j+k].Checksum
       THEN RunLength(linesA, linesB, i, j, k+1)
       ELSE k

\* the pairs (i, j) at which the i/j loops compute a run: both lines
\* unconsumed and of equal checksum
StartPairs(linesA, linesB) ==
  LET freeA == {i \in 1..Len(linesA) : ~linesA[i].IsPartOfMega}
      freeB == {j \in 1..Len(linesB) : ~linesB[j].IsPartOfMega}
  IN {p \in freeA \X freeB : linesA[p[1]].Checksum = linesB[p[2]].Checksum}

\* p is visited before q by the i/j loops
VisitedBefore(p, q) == p[1] < q[1] \/ (p[1] = q[1] /\ p[2] < q[2])

\* faulty variant of ScanPairs: the scan ends at the first run of at least
\* MinMegaBlockLength lines
RECURSIVE ScanPairsFirstFit(_, _, _, _)
ScanPairsFirstFit(linesA, linesB, runs, best) ==
  LET longer == {p \in DOMAIN runs :
                   /\ VisitedBefore(<<best.a, best.b>>, p)
                   /\ runs[p] > best.len}
  IN IF longer = {} \/ best.len >= MinMegaBlockLength THEN best
     ELSE LET p == CHOOSE q \in longer :
                     \A r \in longer : q = r \/ VisitedBefore(q, r)
              next == [len |-> runs[p], a |-> p[1], b |-> p[2]]
          IN After(next, ScanPairsFirstFit(linesA, linesB, runs, next))

\* faulty variant of ScanPairs: best is replaced by a run that is as long
\* as it, so the last of the longest runs is kept
RECURSIVE ScanPairsKeepLast(_, _, _, _)
ScanPairsKeepLast(linesA, linesB, runs, best) ==
  LET longer == {p \in DOMAIN runs :
                   /\ VisitedBefore(<<best.a, best.b>>, p)
                   /\ runs[p] >= best.len}
  IN IF longer = {} THEN best
     ELSE LET p == CHOOSE q \in longer :
                     \A r \in longer : q = r \/ VisitedBefore(q, r)
              next == [len |-> runs[p], a |-> p[1], b |-> p[2]]
          IN After(next, ScanPairsKeepLast(linesA, linesB, runs, next))

\* the i/j loops from the pair after best on; best is
\* [len, a, b] = (bestLen, foundAStart, foundBStart).  best is replaced
\* only by a strictly longer run, so the loops are followed from one
\* replacement of best to the next
RECURSIVE ScanPairs(_, _, _, _)
ScanPairs(linesA, linesB, runs, best) ==
  LET longer == {p \in DOMAIN runs :
                   /\ VisitedBefore(<<best.a, best.b>>, p)
                   /\ runs[p] > best.len}
  IN IF longer = {} THEN best
     ELSE LET p == CHOOSE q \in longer :
                     \A r \in longer : q = r \/ VisitedBefore(q, r)
              next == [len |-> runs[p], a |-> p[1], b |-> p[2]]
          IN After(next, ScanPairs(linesA, linesB, runs, next))

\* faulty variant of findNextGreedyMegaMatch: a run of exactly
\* MinMegaBlockLength lines is not reported
findNextLongerMegaMatch(linesA, linesB) ==
  LET runs == [p \in StartPairs(linesA, linesB) |->
                 RunLength(linesA, linesB, p[1], p[2], 0)]
      best == After(runs, ScanPairs(linesA, linesB, runs,
                                    [len |-> 0, a |-> 0, b |-> 0]))
  IN IF best.len > MinMegaBlockLength
     THEN [aStart |-> best.a, bStart |-> best.b, length |-> best.len,
           found |-> TRUE]
     ELSE [aStart |-> 0, bStart |-> 0, length |-> 0, found |-> FALSE]

\* result [aStart, bStart, length, found]; positions are 1-based
findNextGreedyMegaMatch(linesA, linesB) ==
  LET runs == [p \in StartPairs(linesA, linesB) |->
                 RunLength(linesA, linesB, p[1], p[2], 0)]
      best == After(runs, ScanPairs(linesA, linesB, runs,
                                    [len |-> 0, a |-> 0, b |-> 0]))
  IN IF best.len >= MinMegaBlockLength
     THEN [aStart |-> best.a, bStart |-> best.b, length |-> best.len,
           found |-> TRUE]
     ELSE [aStart |-> 0, bStart |-> 0, length |-> 0, found |-> FALSE]

\* the ContentBlock built for one side of a megamatch.  SourceLineRefs is
\* kept as the sequence of the OriginalLineNum of the referenced records.
MegaBlock(lines, start, length, id, fileOrigin) ==
  LET blockText == Join([k \in 1..length |-> lines[start+k-1].OriginalText],
                        <<NL>>)
  IN [ID |-> id,
      OriginalText |-> blockText,
      NormalizedText |-> NormalizeTextBlock(blockText),
      LineStart |-> lines[start].OriginalLineNum,
      LineEnd |-> lines[start+length-1].OriginalLineNum,
      FileOrigin |-> fileOrigin,
      SourceLineRefs |-> [k \in 1..length |-> lines[start+k-1].OriginalLineNum]]

\* faulty variant of MarkConsumed: only the first line of the run is marked
MarkConsumedFirstOnly(lines, start, length) ==
  [i \in 1..Len(lines) |->
     IF i = start
     THEN [lines[i] EXCEPT !.IsPartOfMega = TRUE]
     ELSE lines[i]]

\* lines start..start+length-1 marked as consumed
MarkConsumed(lines, start, length) ==
  [i \in 1..Len(lines) |->
     IF i >= start /\ i < start + length
     THEN [lines[i] EXCEPT !.IsPartOfMega = TRUE]
     ELSE lines[i]]

(***************************************************************************)
(* Stage 3: gap segmentation (SegmentGapText)                              *)
(***************************************************************************)
\* the inner loop that collects the line records of one paragraph:
\* result [idx, lines] = (currentLineInfoIdx, currentParaLines);
\* idx counts the records already taken
RECURSIVE CollectParaLines(_, _, _, _, _)
CollectParaLines(gapLines, paraText, idx, built, lines) ==
  IF idx >= Len(gapLines) THEN [idx |-> idx, lines |-> lines]
  ELSE LET lineInfo == gapLines[idx+1]
           lines2 == Append(lines, lineInfo.OriginalLineNum)
           built2 == built \o lineInfo.OriginalText
       IN IF built2 = paraText THEN [idx |-> idx+1, lines |-> lines2]
          ELSE IF Len(built2) >= Len(paraText)
               THEN [idx |-> idx+1, lines |-> lines2]
               ELSE After(<<built2, lines2>>,
                          CollectParaLines(gapLines, paraText, idx+1,
                                           built2 \o <<NL>>, lines2))

\* faulty variant of SkipsParagraph: a paragraph with an empty trimmed
\* text is not skipped
SkipsOnlyUnmappedParagraph(trimmedPara, paraLines) == Len(paraLines) = 0

\* the two tests after which a paragraph makes no block: its trimmed text
\* is empty, or no line record was mapped to it
SkipsParagraph(trimmedPara, paraLines) ==
  trimmedPara = <<>> \/ Len(paraLines) = 0

\* the loop over rawParagraphs; result [blocks, next]
RECURSIVE SegmentParas(_, _, _, _, _, _, _)
SegmentParas(gapLines, paras, p, idx, fileOrigin, blockIDCounter, blocks) ==
  IF p > Len(paras) THEN [blocks |-> blocks, next |-> blockIDCounter]
  ELSE LET paraText == paras[p]
           c == CollectParaLines(gapLines, paraText, idx, <<>>, <<>>)
           trimmedPara == TrimSpace(paraText)
           block == [ID |-> blockIDCounter,
                     OriginalText |-> trimmedPara,
                     NormalizedText |-> NormalizeTextBlock(trimmedPara),
                     LineStart |-> c.lines[1],
                     LineEnd |-> c.lines[Len(c.lines)],
                     FileOrigin |-> fileOrigin,
                     SourceLineRefs |-> c.lines]
       IN IF SkipsParagraph(trimmedPara, c.lines)
          THEN After(c, SegmentParas(gapLines, paras, p+1, c.idx, fileOrigin,
                                     blockIDCounter, blocks))
          ELSE After(<<c, block>>,
                     SegmentParas(gapLines, paras, p+1, c.idx, fileOrigin,
                                  blockIDCounter + 1, Append(blocks, block)))

\* faulty variant of SegmentGapText: the blocks of every gap are numbered
\* from 0, whatever ID the caller hands in
SegmentGapTextFromZero(gapLines, fileOrigin, startBlockID) ==
  IF Len(gapLines) = 0 THEN [blocks |-> <<>>, next |-> startBlockID]
  ELSE LET gapContent == Join([i \in 1..Len(gapLines) |->
                                 gapLines[i].OriginalText], <<NL>>)
       IN SegmentParas(gapLines, SplitParagraphs(gapContent), 1, 0,
                       fileOrigin, 0, <<>>)

\* the list of blocks made from the lines of one gap; result [blocks, next]
SegmentGapText(gapLines, fileOrigin, startBlockID) ==
  IF Len(gapLines) = 0 THEN [blocks |-> <<>>, next |-> startBlockID]
  ELSE LET gapContent == Join([i \in 1..Len(gapLines) |->
                                 gapLines[i].OriginalText], <<NL>>)
       IN SegmentParas(gapLines, SplitParagraphs(gapContent), 1, 0,
                       fileOrigin, startBlockID, <<>>)

\* the first lines of the gaps of a file (the values of currentGap when
\* it is handed to SegmentGapText): an unconsumed line that is the first
\* line or follows a consumed one
GapStarts(allLines) ==
  Ascending({i \in 1..Len(allLines) :
               /\ ~allLines[i].IsPartOfMega
               /\ (i = 1 \/ allLines[i-1].IsPartOfMega)})

\* faulty variant of GapFrom: the consumed line that ends the gap is taken
\* with it
GapFromOneMore(allLines, i) ==
  LET stop == {k \in i..Len(allLines) : allLines[k].IsPartOfMega}
      last == IF stop = {} THEN Len(allLines)
              ELSE CHOOSE k \in stop : \A r \in stop : k <= r
  IN SubSeq(allLines, i, last)

\* faulty variant of GapFrom: the gap runs to the end of the file, over
\* the consumed lines that follow it
GapFromToEnd(allLines, i) == SubSeq(allLines, i, Len(allLines))

\* the gap that starts at line i: the unconsumed lines up to the next
\* consumed line or the end of the file
GapFrom(allLines, i) ==
  LET stop == {k \in i..Len(allLines) : allLines[k].IsPartOfMega}
      last == IF stop = {} THEN Len(allLines)
              ELSE (CHOOSE k \in stop : \A r \in stop : k <= r) - 1
  IN SubSeq(allLines, i, last)

\* the loop of stage 3 over the lines of one file, followed from gap to
\* gap: every gap is segmented, in file order; result [blocks, next]
RECURSIVE SegmentGaps(_, _, _, _, _, _)
SegmentGaps(allLines, starts, g, fileOrigin, counter, blocks) ==
  IF g > Len(starts) THEN [blocks |-> blocks, next |-> counter]
  ELSE LET s == SegmentGapText(GapFrom(allLines, starts[g]), fileOrigin,
                               counter)
       IN After(s, SegmentGaps(allLines, starts, g+1, fileOrigin, s.next,
                               blocks \o s.blocks))

(***************************************************************************)
(* Stage 4: semantic pairing of gap paragraphs                             *)
(***************************************************************************)
\* number of lines of a block text, as counted by the pairer
NumLines(block) == CountNL(block.OriginalText) + 1

\* faulty variant of SkipsCandidate: a B-block that is already paired is
\* not passed over
SkipsShortCandidate(gapB, processedB) ==
  NumLines(gapB) < MinParagraphLinesForSemanticMatch

\* the two tests after which the j-loop passes over a B-block: it is
\* already paired, or it has fewer lines than the minimum
SkipsCandidate(gapB, processedB) ==
  \/ gapB.ID \in processedB
  \/ NumLines(gapB) < MinParagraphLinesForSemanticMatch

\* faulty variant of AcceptsMatch: the best candidate is accepted whatever
\* its similarity
AcceptsAnyMatch(best, threshold) == best.block # Nil

\* the test that makes a pair of the best candidate: there is one, and its
\* similarity is at least float32(SimilarityThreshold)
AcceptsMatch(best, threshold) ==
  /\ best.block # Nil
  /\ best.sim >= F32OfFraction(threshold[1], threshold[2])

\* the j-loop over gapBlocksB for one A-block; best is
\* [block, sim] = (bestMatchGapB_ptr, highestSimilarity)
RECURSIVE BestMatch(_, _, _, _, _)
BestMatch(gapA, blocksB, processedB, j, best) ==
  IF j > Len(blocksB) THEN best
  ELSE LET gapB == blocksB[j]
       IN IF SkipsCandidate(gapB, processedB)
          THEN BestMatch(gapA, blocksB, processedB, j+1, best)
          ELSE LET similarity == TextSimilarityNormalized(gapA.NormalizedText,
                                                          gapB.NormalizedText)
               IN IF similarity > best.sim
                  THEN After(similarity,
                             BestMatch(gapA, blocksB, processedB, j+1,
                                       [block |-> gapB, sim |-> similarity]))
                  ELSE BestMatch(gapA, blocksB, processedB, j+1, best)

\* length of the common prefix of two texts
CommonPrefix(a, b) ==
  LET m == Min2(Len(a), Len(b))
      diff == {k \in 1..m : a[k] # b[k]}
  IN IF diff = {} THEN m ELSE MinOf(diff) - 1

\* length of the common suffix of two texts
CommonSuffix(a, b) ==
  LET m == Min2(Len(a), Len(b))
      diff == {k \in 1..m : a[Len(a)-k+1] # b[Len(b)-k+1]}
  IN IF diff = {} THEN m ELSE MinOf(diff) - 1

\* dmp.DiffMain(a, b, true), copied into []LineDiffOp: the edit script of
\* the library, kept to its outer structure (common prefix, deletion and
\* insertion of the differing middle, common suffix)
DiffMain(a, b) ==
  IF a = b THEN (IF Len(a) > 0 THEN <<[Operation |-> "Equal", Text |-> a]>>
                 ELSE <<>>)
  ELSE LET pre == CommonPrefix(a, b)
           a1 == SubSeq(a, pre+1, Len(a))
           b1 == SubSeq(b, pre+1, Len(b))
           suf == CommonSuffix(a1, b1)
           midA == SubSeq(a1, 1, Len(a1) - suf)
           midB == SubSeq(b1, 1, Len(b1) - suf)
       IN (IF pre > 0 THEN <<[Operation |-> "Equal", Text |-> SubSeq(a, 1, pre)]>>
           ELSE <<>>)
          \o (IF Len(midA) > 0 THEN <<[Operation |-> "Delete", Text |-> midA]>>
              ELSE <<>>)
          \o (IF Len(midB) > 0 THEN <<[Operation |-> "Insert", Text |-> midB]>>
              ELSE <<>>)
          \o (IF suf > 0
              THEN <<[Operation |-> "Equal",
                      Text |-> SubSeq(a1, Len(a1) - suf + 1, Len(a1))]>>
              ELSE <<>>)

(***************************************************************************)
(* Stage 5: longest increasing subsequence                                 *)
(***************************************************************************)
\* faulty variant of SearchTails: the search is for the first tail that is
\* not above bLine
RECURSIVE SearchTailsNotAbove(_, _, _, _)
SearchTailsNotAbove(tails, bLine, lo, hi) ==
  IF lo >= hi THEN lo
  ELSE LET h == (lo + hi) \div 2
       IN IF ~(tails[h+1] <= bLine)
          THEN SearchTailsNotAbove(tails, bLine, h+1, hi)
          ELSE SearchTailsNotAbove(tails, bLine, lo, h)

\* sort.Search(n, f) with f(k) = tails[k] >= bLine; lo and hi are 0-based
RECURSIVE SearchTails(_, _, _, _)
SearchTails(tails, bLine, lo, hi) ==
  IF lo >= hi THEN lo
  ELSE LET h == (lo + hi) \div 2
       IN IF ~(tails[h+1] >= bLine)
          THEN SearchTails(tails, bLine, h+1, hi)
          ELSE SearchTails(tails, bLine, lo, h)

\* the loop over bLineStarts; st = [tails, idx, pred] are tails,
\* tailOriginalIndices and predecessorMatchIndices.  Indices into
\* pairedMatches are 1-based here; 0 stands for the -1 of the code.
RECURSIVE LISLoop(_, _, _)
LISLoop(bLineStarts, i, st) ==
  IF i > Len(bLineStarts) THEN st
  ELSE LET bLine == bLineStarts[i]
           j == SearchTails(st.tails, bLine, 0, Len(st.tails))
           tails2 == IF j = Len(st.tails) THEN Append(st.tails, bLine)
                     ELSE [st.tails EXCEPT ![j+1] = bLine]
           idx2 == IF j = Len(st.tails) THEN Append(st.idx, i)
                   ELSE [st.idx EXCEPT ![j+1] = i]
           pred2 == IF j > 0 THEN [st.pred EXCEPT ![i] = idx2[j]]
                    ELSE st.pred
           st2 == [tails |-> tails2, idx |-> idx2, pred |-> pred2]
       IN After(st2, LISLoop(bLineStarts, i+1, st2))

\* the reconstruction loop, i from len(tails) down to 1; a slot the loop
\* leaves after its break keeps the zero value of the code, which denotes
\* the first paired match
\* faulty variant of Reconstruct: only the last index of the subsequence is
\* returned
ReconstructLastOnly(pred, i, current, res) == <<current>>

RECURSIVE Reconstruct(_, _, _, _)
Reconstruct(pred, i, current, res) ==
  IF i < 1 THEN res
  ELSE LET res2 == [res EXCEPT ![i] = current]
           next == pred[current]
       IN IF next = 0 /\ i > 1 THEN res2
          ELSE Reconstruct(pred, i-1, next, res2)

\* faulty variant of findLISIndices: the subsequence is computed over the
\* line starts of the A-blocks
findLISIndicesOverA(pairedMatches) ==
  IF Len(pairedMatches) = 0 THEN <<>>
  ELSE LET aLineStarts == [i \in 1..Len(pairedMatches) |->
                             pairedMatches[i].BlockA.LineStart]
           st == LISLoop(aLineStarts, 1,
                         [tails |-> <<>>, idx |-> <<>>,
                          pred |-> [i \in 1..Len(pairedMatches) |-> 0]])
       IN Reconstruct(st.pred, Len(st.tails), st.idx[Len(st.tails)],
                      [i \in 1..Len(st.tails) |-> 1])

findLISIndices(pairedMatches) ==
  IF Len(pairedMatches) = 0 THEN <<>>
  ELSE IF \E i \in 1..Len(pairedMatches) : pairedMatches[i].BlockB = Nil
       THEN <<>>
  ELSE LET bLineStarts == [i \in 1..Len(pairedMatches) |->
                             pairedMatches[i].BlockB.LineStart]
           st == LISLoop(bLineStarts, 1,
                         [tails |-> <<>>, idx |-> <<>>,
                          pred |-> [i \in 1..Len(pairedMatches) |-> 0]])
       IN IF Len(st.idx) = 0 THEN <<>>
          ELSE Reconstruct(st.pred, Len(st.tails), st.idx[Len(st.tails)],
                           [i \in 1..Len(st.tails) |-> 1])

(***************************************************************************)
(* Sorting.  sort.Slice is not stable: any permutation in which no later   *)
(* element is less than an earlier one may be the result.                  *)
(***************************************************************************)
\* faulty variant of Less: the final sort compares the categories only
LessByTypeOnly(mode, x, y) ==
  CASE mode = "gapID" -> x.ID < y.ID
    [] mode = "pairs" ->
         IF x.BlockA.LineStart # y.BlockA.LineStart
         THEN x.BlockA.LineStart < y.BlockA.LineStart
         ELSE x.BlockA.ID < y.BlockA.ID
    [] mode = "final" -> x.Type < y.Type

\* faulty variant of Less: the final sort puts the later line of A first
LessLaterLineFirst(mode, x, y) ==
  CASE mode = "gapID" -> x.ID < y.ID
    [] mode = "pairs" ->
         IF x.BlockA.LineStart # y.BlockA.LineStart
         THEN x.BlockA.LineStart < y.BlockA.LineStart
         ELSE x.BlockA.ID < y.BlockA.ID
    [] mode = "final" ->
         IF x.Type # y.Type THEN x.Type < y.Type
         ELSE IF x.BlockA # Nil /\ y.BlockA # Nil
              THEN IF x.BlockA.LineStart # y.BlockA.LineStart
                   THEN x.BlockA.LineStart > y.BlockA.LineStart
                   ELSE x.BlockA.ID < y.BlockA.ID
         ELSE IF x.BlockA # Nil THEN TRUE
         ELSE IF y.BlockA # Nil THEN FALSE
         ELSE IF x.BlockB # Nil /\ y.BlockB # Nil
              THEN IF x.BlockB.LineStart # y.BlockB.LineStart
                   THEN x.BlockB.LineStart < y.BlockB.LineStart
                   ELSE x.BlockB.ID < y.BlockB.ID
         ELSE FALSE

\* the three less functions passed to sort.Slice
Less(mode, x, y) ==
  CASE mode = "gapID" -> x.ID < y.ID
    [] mode = "pairs" ->
         IF x.BlockA.LineStart # y.BlockA.LineStart
         THEN x.BlockA.LineStart < y.BlockA.LineStart
         ELSE x.BlockA.ID < y.BlockA.ID
    [] mode = "final" ->
         IF x.Type # y.Type THEN x.Type < y.Type
         ELSE IF x.BlockA # Nil /\ y.BlockA # Nil
              THEN IF x.BlockA.LineStart # y.BlockA.LineStart
                   THEN x.BlockA.LineStart < y.BlockA.LineStart
                   ELSE x.BlockA.ID < y.BlockA.ID
         ELSE IF x.BlockA # Nil THEN TRUE
         ELSE IF y.BlockA # Nil THEN FALSE
         ELSE IF x.BlockB # Nil /\ y.BlockB # Nil
              THEN IF x.BlockB.LineStart # y.BlockB.LineStart
                   THEN x.BlockB.LineStart < y.BlockB.LineStart
                   ELSE x.BlockB.ID < y.BlockB.ID
         ELSE FALSE

RECURSIVE SortedOrders(_, _, _)
SortedOrders(seq, mode, rest) ==
  IF rest = {} THEN {<<>>}
  ELSE UNION {{<<seq[x]>> \o t : t \in SortedOrders(seq, mode, rest \ {x})} :
              x \in {x \in rest :
                       \A y \in rest \ {x} : ~Less(mode, seq[y], seq[x])}}

\* faulty variant of SortSlice: the slice is left as it is
SortSliceOmitted(seq, mode) == {seq}

\* the possible results of sort.Slice(seq, less)
SortSlice(seq, mode) == SortedOrders(seq, mode, DOMAIN seq)

(***************************************************************************)
(* Inputs: the calls PerformDiff(A, B) under a threshold that are explored *)
(***************************************************************************)
\* longest file, in lines, of the exhaustive family
MaxLines == 3

\* number of paragraphs of the base file of the edited family
MaxParas == 3

\* --threshold as a fraction; 0.55 is the default of the flag
DefaultThreshold == <<11, 20>>
Thresholds == {<<2, 5>>, DefaultThreshold, <<4, 5>>}

\* every file of 1..MaxLines lines over a set of line texts, as raw content
FilesOver(lineTexts) ==
  {Join(ls, <<NL>>) : ls \in UNION {[1..n -> lineTexts] : n \in 1..MaxLines}}

\* exhaustive family: short files over empty, blank and one-letter lines
\* against short files over empty and one-letter lines, in both roles
SmallPairs ==
  LET xs == FilesOver({<<>>, <<SP>>, <<"a">>})
      ys == FilesOver({<<>>, <<"a">>})
  IN (xs \X ys) \cup (ys \X xs)

Letters == <<"a", "b", "c", "d", "e", "f", "g", "h", "i", "j", "k", "l",
             "m", "n", "o">>
UpperLetters == <<"A", "B", "C", "D", "E", "F", "G", "H", "I", "J", "K", "L",
                  "M", "N", "O">>

\* the three lines of paragraph i of the base file
BaseLines(i) == <<<<Letters[3*i-2]>>, <<Letters[3*i-1]>>, <<Letters[3*i]>>>>

\* paragraph i as it appears in the edited file:
\*   same     unchanged
\*   edit     the middle line replaced
\*   rewrite  every line replaced
\*   drift    case and white-space changes only
Variants == {"same", "edit", "rewrite"}

VariantLines(i, v) ==
  CASE v = "same" -> BaseLines(i)
    [] v = "edit" -> <<<<Letters[3*i-2]>>, <<"x">>, <<Letters[3*i]>>>>
    [] v = "rewrite" -> <<<<"x">>, <<"y">>, <<"z">>>>
    [] v = "drift" -> <<<<SP, UpperLetters[3*i-2]>>, <<Letters[3*i-1], SP>>,
                        <<Letters[3*i]>>>>

\* a file of paragraphs: each paragraph followed by the separator line,
\* the last one by the final newline of the file
RECURSIVE ParasContent(_, _)
ParasContent(paras, sepLine) ==
  IF Len(paras) = 0 THEN <<>>
  ELSE Join(paras[1], <<NL>>) \o <<NL>>
       \o (IF Len(paras) > 1
           THEN sepLine \o <<NL>> \o ParasContent(Tail(paras), sepLine)
           ELSE <<>>)

\* the base file of n paragraphs
BaseContent(n) == ParasContent([i \in 1..n |-> BaseLines(i)], <<>>)

\* edited files of a base file of n paragraphs: any arrangement of some of
\* its paragraphs, each in one of its variants
Arrangements(n) ==
  {s \in UNION {[1..k -> (1..n) \X Variants] : k \in 0..n} :
     \A p, q \in 1..Len(s) : p # q => s[p][1] # s[q][1]}

\* the base file of n paragraphs against each of its edited files
EditedPairsOf(n) ==
  {<<BaseContent(n),
     ParasContent([k \in 1..Len(s) |-> VariantLines(s[k][1], s[k][2])], <<>>)>> :
   s \in Arrangements(n)}

\* edited family, explored under the default threshold
EditedPairs == UNION {EditedPairsOf(n) : n \in 1..MaxParas}

\* the part of the edited family that is explored under every threshold:
\* the base files of fewer than MaxParas paragraphs
ThresholdPairs == UNION {EditedPairsOf(n) : n \in 1..(MaxParas - 1)}

\* drift family: the base file against itself with only its formatting
\* changed (the separator lines blank or a vertical tab, the paragraphs
\* with case and white-space changes), in both roles
DriftPairs ==
  LET ps == UNION {{<<BaseContent(n),
                      ParasContent([i \in 1..n |-> VariantLines(i, v)], sep)>> :
                    v \in {"same", "drift"}, sep \in {<<SP>>, <<VT>>}} :
                   n \in 1..MaxParas}
  IN ps \cup {<<in[2], in[1]>> : in \in ps}

\* number of paragraphs of the longest file of the competing family
MaxCompeting == 2

\* three paragraphs that differ from one another in one or two lines
SimilarParas ==
  {<<<<"a">>, <<"b">>, <<"c">>>>,
   <<<<"a">>, <<"b">>, <<"d">>>>,
   <<<<"a">>, <<"x">>, <<"d">>>>}

\* competing family: files of similar (and of repeated) paragraphs, so that
\* several A-paragraphs want the same B-paragraph, and one A-paragraph has
\* several equally good B-paragraphs
CompetingPairs ==
  LET fs == {ParasContent(ps, <<>>) :
             ps \in UNION {[1..n -> SimilarParas] : n \in 1..MaxCompeting}}
  IN fs \X fs

\* a threshold that the paragraphs of the boundary family meet exactly
BoundaryThreshold == <<3, 20>>

\* paragraphs of three lines and 20 characters, and short paragraphs at
\* distance 17 ("a y z") and 18 ("x y z") from them
LongParas ==
  {<<<<"a", "a", "a", "a", "a", "a">>, <<"a", "a", "a", "a", "a", "a">>,
     <<"a", "a", "a", "a", "a", "a">>>>,
   <<<<"a", "a", "a", "a", "a", "b">>, <<"a", "a", "a", "a", "a", "a">>,
     <<"a", "a", "a", "a", "a", "a">>>>}
ShortParas ==
  {<<<<"a">>, <<"y">>, <<"z">>>>, <<<<"x">>, <<"y">>, <<"z">>>>}

\* boundary family: files of long paragraphs against a file of one short
\* paragraph, explored under the boundary threshold
BoundaryPairs ==
  {ParasContent(ps, <<>>) :
     ps \in UNION {[1..n -> LongParas] : n \in 1..MaxCompeting}}
  \X {ParasContent(<<q>>, <<>>) : q \in ShortParas}

\* a file given by its lines, each followed by a newline
LinesContent(ls) == Join(ls, <<NL>>) \o <<NL>>

\* two runs of three lines, separated by an empty line, and the same two
\* runs in the opposite order
MoveScenario ==
  LET h == <<<<"H", "1">>, <<"H", "2">>, <<"H", "3">>>>
      x == <<<<"X", "1">>, <<"X", "2">>, <<"X", "3">>>>
  IN <<LinesContent(h \o << <<>> >> \o x), LinesContent(x \o << <<>> >> \o h)>>

\* paragraphs close to "a", "b", "c", one of them with two-byte characters
AccentedParas ==
  {<<<<"a">>, <<"b">>, <<EAcute, EAcute>>>>,
   <<<<"a">>, <<"b">>, <<"c", "x", "y">>>>}

\* accented family: one paragraph against files of paragraphs that differ
\* from it in the last line, with and without non-ASCII characters
AccentedPairs ==
  {ParasContent(<< <<<<"a">>, <<"b">>, <<"c">>>> >>, <<>>)}
  \X {ParasContent(ps, <<>>) :
        ps \in UNION {[1..n -> AccentedParas] : n \in 1..MaxCompeting}}

\* the calls: <<A, B, threshold>>
Inputs ==
  {<<in[1], in[2], DefaultThreshold>> :
     in \in SmallPairs \cup DriftPairs \cup CompetingPairs \cup EditedPairs
             \cup AccentedPairs \cup {MoveScenario}}
  \cup {<<in[1], in[2], t>> : in \in ThresholdPairs, t \in Thresholds}
  \cup {<<in[1], in[2], BoundaryThreshold>> : in \in BoundaryPairs}

(***************************************************************************)
(* State                                                                   *)
(***************************************************************************)
VARIABLES rawContentA, rawContentB, SimilarityThreshold, pc,
          allLinesA, allLinesB, megablockDiffs, blockGlobalIDCounter,
          gapBlocksA, gapBlocksB, gapIdx, semanticGapMatches,
          processedGapA_byID, processedGapB_byID, finalDiffs,
          fnArgs, fnResult,
          FocusRangeStr, CurrentFocusRange, nArg, readError, exitCode,
          performDiffCalls

vars == <<rawContentA, rawContentB, SimilarityThreshold, pc,
          allLinesA, allLinesB, megablockDiffs, blockGlobalIDCounter,
          gapBlocksA, gapBlocksB, gapIdx, semanticGapMatches,
          processedGapA_byID, processedGapB_byID, finalDiffs,
          fnArgs, fnResult,
          FocusRangeStr, CurrentFocusRange, nArg, readError, exitCode,
          performDiffCalls>>

inputVars == <<rawContentA, rawContentB, SimilarityThreshold>>

\* arguments and result of a direct call of one of the pure functions
\* (not used by a call of PerformDiff)
kernelVars == <<fnArgs, fnResult>>

\* the state of the command (main.go): the --focus argument and its parsed
\* form, the number of positional arguments, which file cannot be read,
\* the exit code, and the number of calls of PerformDiff made
cliVars == <<FocusRangeStr, CurrentFocusRange, nArg, readError, exitCode,
             performDiffCalls>>

\* PerformDiff is called on its own, not from the command
NoCli ==
  /\ FocusRangeStr = <<>>
  /\ CurrentFocusRange = [IsSet |-> FALSE, StartLine |-> 0, EndLine |-> 0]
  /\ nArg = 2
  /\ readError = "none"
  /\ exitCode = -1
  /\ performDiffCalls = 0

Init ==
  /\ \E in \in Inputs : /\ rawContentA = in[1]
                        /\ rawContentB = in[2]
                        /\ SimilarityThreshold = in[3]
  /\ pc = "start"
  /\ allLinesA = <<>>
  /\ allLinesB = <<>>
  /\ megablockDiffs = <<>>
  /\ blockGlobalIDCounter = 0
  /\ gapBlocksA = <<>>
  /\ gapBlocksB = <<>>
  /\ gapIdx = 0
  /\ semanticGapMatches = <<>>
  /\ processedGapA_byID = {}
  /\ processedGapB_byID = {}
  /\ finalDiffs = <<>>
  /\ fnArgs = <<>>
  /\ fnResult = <<>>
  /\ NoCli

(***************************************************************************)
(* PerformDiff                                                             *)
(***************************************************************************)
\* Stage 1
Preprocess ==
  /\ pc = "start"
  /\ allLinesA' = getLinesWithInfo(rawContentA, "A")
  /\ allLinesB' = getLinesWithInfo(rawContentB, "B")
  /\ pc' = "mega"
  /\ UNCHANGED <<inputVars, kernelVars, cliVars, megablockDiffs, blockGlobalIDCounter, gapBlocksA,
                 gapBlocksB, gapIdx, semanticGapMatches, processedGapA_byID,
                 processedGapB_byID, finalDiffs>>

\* Stage 2, one iteration of the loop that finds a megamatch
MegaMatch ==
  /\ pc = "mega"
  /\ LET m == findNextGreedyMegaMatch(allLinesA, allLinesB)
     IN /\ m.found
        /\ LET cbA == MegaBlock(allLinesA, m.aStart, m.length,
                                blockGlobalIDCounter, "A")
               cbB == MegaBlock(allLinesB, m.bStart, m.length,
                                blockGlobalIDCounter + 1, "B")
           IN megablockDiffs' =
                Append(megablockDiffs,
                       [Type |-> Unchanged, BlockA |-> cbA, BlockB |-> cbB,
                        Similarity |-> 0, LineDiffs |-> <<>>])
        /\ blockGlobalIDCounter' = blockGlobalIDCounter + 2
        /\ allLinesA' = MarkConsumed(allLinesA, m.aStart, m.length)
        /\ allLinesB' = MarkConsumed(allLinesB, m.bStart, m.length)
  /\ UNCHANGED <<inputVars, kernelVars, cliVars, pc, gapBlocksA, gapBlocksB, gapIdx,
                 semanticGapMatches, processedGapA_byID, processedGapB_byID,
                 finalDiffs>>

\* Stage 2, the iteration that finds nothing and leaves the loop
MegaDone ==
  /\ pc = "mega"
  /\ ~findNextGreedyMegaMatch(allLinesA, allLinesB).found
  /\ pc' = "gapsA"
  /\ UNCHANGED <<inputVars, kernelVars, cliVars, allLinesA, allLinesB, megablockDiffs,
                 blockGlobalIDCounter, gapBlocksA, gapBlocksB, gapIdx,
                 semanticGapMatches, processedGapA_byID, processedGapB_byID,
                 finalDiffs>>

\* Stage 3, file A
SegmentA ==
  /\ pc = "gapsA"
  /\ LET s == SegmentGaps(allLinesA, GapStarts(allLinesA), 1, "A",
                        blockGlobalIDCounter, <<>>)
     IN /\ gapBlocksA' = s.blocks
        /\ blockGlobalIDCounter' = s.next
  /\ pc' = "gapsB"
  /\ UNCHANGED <<inputVars, kernelVars, cliVars, allLinesA, allLinesB, megablockDiffs, gapBlocksB,
                 gapIdx, semanticGapMatches, processedGapA_byID,
                 processedGapB_byID, finalDiffs>>

\* Stage 3, file B, and the sort by ID that opens stage 4
SegmentB ==
  /\ pc = "gapsB"
  /\ LET s == SegmentGaps(allLinesB, GapStarts(allLinesB), 1, "B",
                        blockGlobalIDCounter, <<>>)
     IN /\ gapBlocksB' = s.blocks
        /\ blockGlobalIDCounter' = s.next
  /\ gapBlocksA' \in SortSlice(gapBlocksA, "gapID")
  /\ gapIdx' = 1
  /\ pc' = "pairing"
  /\ UNCHANGED <<inputVars, kernelVars, cliVars, allLinesA, allLinesB, megablockDiffs,
                 semanticGapMatches, processedGapA_byID, processedGapB_byID,
                 finalDiffs>>

\* Stage 4, the iteration of the loop for gapBlocksA[gapIdx]
PairGap ==
  /\ pc = "pairing"
  /\ gapIdx <= Len(gapBlocksA)
  /\ LET gapA == gapBlocksA[gapIdx]
         best == BestMatch(gapA, gapBlocksB, processedGapB_byID, 1,
                           [block |-> Nil, sim |-> -F32One])
     IN IF /\ NumLines(gapA) >= MinParagraphLinesForSemanticMatch
           /\ AcceptsMatch(best, SimilarityThreshold)
        THEN /\ semanticGapMatches' =
                  Append(semanticGapMatches,
                         [Type |-> Modified, BlockA |-> gapA,
                          BlockB |-> best.block, Similarity |-> best.sim,
                          LineDiffs |-> DiffMain(gapA.OriginalText,
                                                 best.block.OriginalText)])
             /\ processedGapA_byID' = processedGapA_byID \cup {gapA.ID}
             /\ processedGapB_byID' = processedGapB_byID \cup {best.block.ID}
        ELSE UNCHANGED <<semanticGapMatches, processedGapA_byID,
                         processedGapB_byID>>
  /\ gapIdx' = gapIdx + 1
  /\ UNCHANGED <<inputVars, kernelVars, cliVars, pc, allLinesA, allLinesB, megablockDiffs,
                 blockGlobalIDCounter, gapBlocksA, gapBlocksB, finalDiffs>>

\* Stage 5: sort of the paired matches, LIS, Moved for the others
Classify ==
  /\ pc = "pairing"
  /\ gapIdx > Len(gapBlocksA)
  /\ \E allPairedMatches \in SortSlice(megablockDiffs \o semanticGapMatches,
                                       "pairs") :
       LET lisIndices == findLISIndices(allPairedMatches)
           isLisMember == {lisIndices[k] : k \in 1..Len(lisIndices)}
       IN finalDiffs' =
            [i \in 1..Len(allPairedMatches) |->
               IF i \in isLisMember THEN allPairedMatches[i]
               ELSE [allPairedMatches[i] EXCEPT !.Type = Moved]]
  /\ pc' = "collect"
  /\ UNCHANGED <<inputVars, kernelVars, cliVars, allLinesA, allLinesB, megablockDiffs,
                 blockGlobalIDCounter, gapBlocksA, gapBlocksB, gapIdx,
                 semanticGapMatches, processedGapA_byID, processedGapB_byID>>

\* faulty variant of Unpaired: the block is put in the field of the other
\* file
UnpairedSwapped(blocks, processed, type) ==
  LET keep == SelectSeq(blocks, LAMBDA b : b.ID \notin processed)
  IN [i \in 1..Len(keep) |->
        [Type |-> type,
         BlockA |-> IF type = Added THEN keep[i] ELSE Nil,
         BlockB |-> IF type = Deleted THEN keep[i] ELSE Nil,
         Similarity |-> 0,
         LineDiffs |-> <<>>]]

\* the Deleted (Added) entries of the blocks of a gap list that are not paired
Unpaired(blocks, processed, type) ==
  LET keep == SelectSeq(blocks, LAMBDA b : b.ID \notin processed)
  IN [i \in 1..Len(keep) |->
        [Type |-> type,
         BlockA |-> IF type = Deleted THEN keep[i] ELSE Nil,
         BlockB |-> IF type = Added THEN keep[i] ELSE Nil,
         Similarity |-> 0,
         LineDiffs |-> <<>>]]

\* faulty variant of Collect: the loop over gapBlocksB is left out
CollectDeletedOnly ==
  /\ pc = "collect"
  /\ finalDiffs' = finalDiffs
                   \o Unpaired(gapBlocksA, processedGapA_byID, Deleted)
  /\ pc' = "sort"
  /\ UNCHANGED <<inputVars, kernelVars, cliVars, allLinesA, allLinesB, megablockDiffs,
                 blockGlobalIDCounter, gapBlocksA, gapBlocksB, gapIdx,
                 semanticGapMatches, processedGapA_byID, processedGapB_byID>>

\* Stage 6
Collect ==
  /\ pc = "collect"
  /\ finalDiffs' = finalDiffs
                   \o Unpaired(gapBlocksA, processedGapA_byID, Deleted)
                   \o Unpaired(gapBlocksB, processedGapB_byID, Added)
  /\ pc' = "sort"
  /\ UNCHANGED <<inputVars, kernelVars, cliVars, allLinesA, allLinesB, megablockDiffs,
                 blockGlobalIDCounter, gapBlocksA, gapBlocksB, gapIdx,
                 semanticGapMatches, processedGapA_byID, processedGapB_byID>>

\* Stage 7 and the return
SortFinal ==
  /\ pc = "sort"
  /\ finalDiffs' \in SortSlice(finalDiffs, "final")
  /\ pc' = "done"
  /\ UNCHANGED <<inputVars, kernelVars, cliVars, allLinesA, allLinesB, megablockDiffs,
                 blockGlobalIDCounter, gapBlocksA, gapBlocksB, gapIdx,
                 semanticGapMatches, processedGapA_byID, processedGapB_byID>>

Next ==
  \/ Preprocess
  \/ MegaMatch
  \/ MegaDone
  \/ SegmentA
  \/ SegmentB
  \/ PairGap
  \/ Classify
  \/ Collect
  \/ SortFinal

Spec == Init /\ [][Next]_vars

(***************************************************************************)
(* Properties of the result of PerformDiff                                 *)
(***************************************************************************)
\* PerformDiff has returned
Done == pc = "done"

\* a blank or white-space-only line
IsBlank(text) == TrimSpace(text) = <<>>

\* every line of a file is blank or white-space-only
OnlyBlankLines(allLines) ==
  \A n \in 1..Len(allLines) : IsBlank(allLines[n].OriginalText)

\* the original line numbers recorded in a block
RefLines(block) ==
  {block.SourceLineRefs[k] : k \in 1..Len(block.SourceLineRefs)}

\* the entries of the result that hold a block of file A (of file B)
EntriesWithA == {i \in 1..Len(finalDiffs) : finalDiffs[i].BlockA # Nil}
EntriesWithB == {i \in 1..Len(finalDiffs) : finalDiffs[i].BlockB # Nil}

\* the entries that hold both blocks
PairedEntries == EntriesWithA \cap EntriesWithB

\* the entry was made by stage 2 (a megablock pair)
FromMega(e) ==
  \E m \in 1..Len(megablockDiffs) : megablockDiffs[m].BlockA = e.BlockA

\* the entry was made by stage 4 (a semantic gap pair)
FromSemantic(e) ==
  \E m \in 1..Len(semanticGapMatches) : semanticGapMatches[m].BlockA = e.BlockA

\* float32(SimilarityThreshold)
Threshold32 == F32OfFraction(SimilarityThreshold[1], SimilarityThreshold[2])

\* C1: after PerformDiff, every line of either file that is not blank or
\* white-space-only is recorded in exactly one content block of its file
\* (one megablock side or one gap block).
C1_NonBlankLineInExactlyOneBlock ==
  Done =>
    /\ \A n \in 1..Len(allLinesA) :
         ~IsBlank(allLinesA[n].OriginalText) =>
           Cardinality({i \in EntriesWithA :
                          n \in RefLines(finalDiffs[i].BlockA)}) = 1
    /\ \A n \in 1..Len(allLinesB) :
         ~IsBlank(allLinesB[n].OriginalText) =>
           Cardinality({i \in EntriesWithB :
                          n \in RefLines(finalDiffs[i].BlockB)}) = 1

\* the line range of a gap block is exactly that of its text: as many
\* lines as the text has, the first and the last holding the first and the
\* last line of the text
ExactLineRange(block, allLines) ==
  LET textLines == SplitLines(block.OriginalText)
  IN /\ block.LineEnd - block.LineStart + 1 = Len(textLines)
     /\ TrimSpace(allLines[block.LineStart].OriginalText)
          = TrimSpace(textLines[1])
     /\ TrimSpace(allLines[block.LineEnd].OriginalText)
          = TrimSpace(textLines[Len(textLines)])

\* C2: for every gap block made by SegmentGapText, LineStart and LineEnd
\* are the original numbers of the lines that hold the first and the last
\* line of the block's text, so LineEnd - LineStart + 1 is the number of
\* lines of the text, also next to blank lines in the gap.
C2_GapBlockLineRangeExact ==
  /\ \A k \in 1..Len(gapBlocksA) : ExactLineRange(gapBlocksA[k], allLinesA)
  /\ \A k \in 1..Len(gapBlocksB) : ExactLineRange(gapBlocksB[k], allLinesB)

\* C3 as stated: every Modified or Moved entry of the result, megablock
\* pairs included, has a Similarity of at least the threshold.
C3_EveryModifiedOrMovedMeetsThreshold ==
  Done =>
    \A i \in 1..Len(finalDiffs) :
      finalDiffs[i].Type \in {Modified, Moved} =>
        finalDiffs[i].Similarity >= Threshold32

\* C3: every Modified entry, and every Moved entry that comes from a
\* semantic gap pair, has a Similarity of at least the threshold; a Moved
\* entry that comes from a megablock pair has the Similarity 0 it was made
\* with.
C3_SemanticPairsMeetThreshold ==
  Done =>
    \A i \in 1..Len(finalDiffs) :
      LET e == finalDiffs[i]
      IN /\ e.Type = Modified => e.Similarity >= Threshold32
         /\ e.Type = Moved =>
              /\ FromSemantic(e) => e.Similarity >= Threshold32
              /\ FromMega(e) => e.Similarity = 0
              /\ FromSemantic(e) \/ FromMega(e)

\* a semantic pair and a megablock pair have both been made Moved
C3_Witness ==
  /\ Done
  /\ \E i \in 1..Len(finalDiffs) :
       finalDiffs[i].Type = Moved /\ FromSemantic(finalDiffs[i])
  /\ \E i \in 1..Len(finalDiffs) : finalDiffs[i].Type = Modified

\* place of a category in the order Added, Deleted, Moved, Modified,
\* Unchanged
ReportRank(type) ==
  CASE type = Added -> 1
    [] type = Deleted -> 2
    [] type = Moved -> 3
    [] type = Modified -> 4
    [] type = Unchanged -> 5

\* C4 as stated: the result is ordered by category in the order Added,
\* Deleted, Moved, Modified, Unchanged.
C4_OrderedMovedBeforeModified ==
  Done =>
    \A i, j \in 1..Len(finalDiffs) :
      i < j => ReportRank(finalDiffs[i].Type) <= ReportRank(finalDiffs[j].Type)

\* C4: the result is ordered by category in the order of the DiffType
\* values: Added, Deleted, Modified, Moved, Unchanged.
C4_OrderedByDiffType ==
  Done =>
    \A i, j \in 1..Len(finalDiffs) :
      i < j => finalDiffs[i].Type <= finalDiffs[j].Type

\* a result that holds a Modified entry before a Moved one, and entries of
\* at least three categories
C4_Witness ==
  /\ Done
  /\ \E i, j \in 1..Len(finalDiffs) :
       i < j /\ finalDiffs[i].Type = Modified /\ finalDiffs[j].Type = Moved
  /\ Cardinality({finalDiffs[i].Type : i \in 1..Len(finalDiffs)}) >= 3

\* the entries kept in place by stage 5
KeptEntries ==
  {i \in 1..Len(finalDiffs) : finalDiffs[i].Type \in {Unchanged, Modified}}

\* C5: among the entries that are Unchanged or Modified in the result,
\* ordered by BlockA.LineStart, the BlockB.LineStart values are strictly
\* increasing.
C5_KeptEntriesIncreaseInB ==
  Done =>
    \A i, j \in KeptEntries :
      i # j /\ finalDiffs[i].BlockA.LineStart <= finalDiffs[j].BlockA.LineStart
        => finalDiffs[i].BlockB.LineStart < finalDiffs[j].BlockB.LineStart

\* two entries are kept in place while a third pair is made Moved
C5_Witness ==
  /\ Done
  /\ Cardinality(KeptEntries) >= 2
  /\ \E i \in 1..Len(finalDiffs) : finalDiffs[i].Type = Moved

\* C6: in the result no block is in more than one entry that holds both
\* blocks: an A-block is paired with at most one B-block and a B-block
\* with at most one A-block, megablock and semantic pairs together.
C6_BlockInAtMostOnePair ==
  Done =>
    \A i, j \in PairedEntries :
      i # j => /\ finalDiffs[i].BlockA # finalDiffs[j].BlockA
               /\ finalDiffs[i].BlockA.ID # finalDiffs[j].BlockA.ID
               /\ finalDiffs[i].BlockB # finalDiffs[j].BlockB
               /\ finalDiffs[i].BlockB.ID # finalDiffs[j].BlockB.ID

\* a megablock pair and a semantic pair, with an A gap block of three
\* lines left without a partner
C6_Witness ==
  /\ Done
  /\ \E i \in PairedEntries : FromMega(finalDiffs[i])
  /\ \E i \in PairedEntries : FromSemantic(finalDiffs[i])
  /\ \E i \in 1..Len(finalDiffs) :
       /\ finalDiffs[i].Type = Deleted
       /\ NumLines(finalDiffs[i].BlockA) >= MinParagraphLinesForSemanticMatch

StagesLeft(p) ==
  CASE p = "start" -> 7
    [] p = "mega" -> 6
    [] p = "gapsA" -> 5
    [] p = "gapsB" -> 4
    [] p = "pairing" -> 3
    [] p = "collect" -> 2
    [] p = "sort" -> 1
    [] p = "done" -> 0

\* the iterations that the loop of the current stage can still make: the
\* unconsumed lines of A in stage 2, the A gap blocks not yet visited in
\* stage 4
LoopLeft ==
  IF pc = "mega"
  THEN Cardinality({n \in 1..Len(allLinesA) : ~allLinesA[n].IsPartOfMega})
  ELSE IF pc = "pairing" THEN Len(gapBlocksA) + 1 - gapIdx
  ELSE 0

\* a step brings the call nearer to its return: it leaves the stage, or
\* it uses up one of the iterations left to the loop of the stage
StepTowardsReturn ==
  \/ StagesLeft(pc') < StagesLeft(pc)
  \/ /\ StagesLeft(pc') = StagesLeft(pc)
     /\ LoopLeft' < LoopLeft
     /\ LoopLeft' >= 0

\* what holds in every state of a call with an empty input: no block of
\* the empty file, and in the result only Added (only Deleted) entries
EmptyInputOnlyAddedOrDeleted ==
  /\ rawContentA = <<>> =>
       /\ megablockDiffs = <<>> /\ gapBlocksA = <<>>
       /\ \A i \in 1..Len(finalDiffs) :
            finalDiffs[i].BlockA = Nil
            /\ (Done => finalDiffs[i].Type = Added)
  /\ rawContentB = <<>> =>
       /\ megablockDiffs = <<>> /\ gapBlocksB = <<>>
       /\ \A i \in 1..Len(finalDiffs) :
            finalDiffs[i].BlockB = Nil
            /\ (Done => finalDiffs[i].Type = Deleted)

\* C9: if A is the empty string no A-block is made and every entry is
\* Added; if B is the empty string no B-block is made and every entry is
\* Deleted; in both cases every step of the call brings it nearer to its
\* return (no stage is left undone, no loop runs on).
C9_EmptyInputOnlyAddedOrDeleted ==
  /\ []EmptyInputOnlyAddedOrDeleted
  /\ [][rawContentA = <<>> \/ rawContentB = <<>> => StepTowardsReturn]_vars

\* the call with an empty A has returned entries for a B that also holds
\* a blank line
C9_Witness ==
  /\ Done
  /\ rawContentA = <<>>
  /\ Len(finalDiffs) >= 1
  /\ \E n \in 1..Len(allLinesB) : IsBlank(allLinesB[n].OriginalText)

C12_CategoryShape ==
  Done =>
    \A i \in 1..Len(finalDiffs) :
      LET e == finalDiffs[i]
      IN /\ e.Type \in {Added, Deleted, Modified, Moved, Unchanged}
         /\ e.Type \in {Unchanged, Modified, Moved} =>
              e.BlockA # Nil /\ e.BlockB # Nil
         /\ e.Type = Deleted => e.BlockA # Nil /\ e.BlockB = Nil
         /\ e.Type = Added => e.BlockA = Nil /\ e.BlockB # Nil
         /\ e.BlockA # Nil => e.BlockA.FileOrigin = "A"
         /\ e.BlockB # Nil => e.BlockB.FileOrigin = "B"

\* a result with an Added and a Deleted entry and two kinds of pairs
C12_Witness ==
  /\ Done
  /\ \E i \in 1..Len(finalDiffs) : finalDiffs[i].Type = Added
  /\ \E i \in 1..Len(finalDiffs) : finalDiffs[i].Type = Deleted
  /\ Cardinality({finalDiffs[i].Type : i \in PairedEntries}) >= 2

\* the lines from LineStart to LineEnd of a block
RangeLines(block) == block.LineStart..block.LineEnd

\* C13: for each file the line numbers recorded for its blocks are
\* pairwise disjoint, megablock sides and gap blocks together, both as
\* line records and as ranges LineStart..LineEnd.
C13_BlockLinesDisjoint ==
  Done =>
    /\ \A i, j \in EntriesWithA :
         i # j =>
           /\ RefLines(finalDiffs[i].BlockA) \cap RefLines(finalDiffs[j].BlockA) = {}
           /\ RangeLines(finalDiffs[i].BlockA)
                \cap RangeLines(finalDiffs[j].BlockA) = {}
    /\ \A i, j \in EntriesWithB :
         i # j =>
           /\ RefLines(finalDiffs[i].BlockB) \cap RefLines(finalDiffs[j].BlockB) = {}
           /\ RangeLines(finalDiffs[i].BlockB)
                \cap RangeLines(finalDiffs[j].BlockB) = {}

\* a file with a megablock between two gap blocks
C13_Witness ==
  /\ Done
  /\ \E i, j, k \in EntriesWithA :
       /\ FromMega(finalDiffs[i])
       /\ ~FromMega(finalDiffs[j]) /\ ~FromMega(finalDiffs[k])
       /\ finalDiffs[j].BlockA.LineEnd < finalDiffs[i].BlockA.LineStart
       /\ finalDiffs[i].BlockA.LineEnd < finalDiffs[k].BlockA.LineStart

\* the IDs of the blocks created so far, by kind
MegaIDs ==
  {megablockDiffs[i].BlockA.ID : i \in 1..Len(megablockDiffs)}
    \cup {megablockDiffs[i].BlockB.ID : i \in 1..Len(megablockDiffs)}
GapIDsA == {gapBlocksA[i].ID : i \in 1..Len(gapBlocksA)}
GapIDsB == {gapBlocksB[i].ID : i \in 1..Len(gapBlocksB)}

\* every block created so far has an ID of its own, below the counter, and
\* the IDs of the megablock sides are below those of the A gap blocks, which
\* are below those of the B gap blocks
BlockIDsDistinct ==
  /\ Cardinality(MegaIDs) = 2 * Len(megablockDiffs)
  /\ Cardinality(GapIDsA) = Len(gapBlocksA)
  /\ Cardinality(GapIDsB) = Len(gapBlocksB)
  /\ MegaIDs \cup GapIDsA \cup GapIDsB = 0..(blockGlobalIDCounter - 1)
  /\ \A m \in MegaIDs : \A a \in GapIDsA : m < a
  /\ \A m \in MegaIDs : \A b \in GapIDsB : m < b
  /\ \A a \in GapIDsA : \A b \in GapIDsB : a < b
  /\ \A i \in 1..Len(finalDiffs) :
       /\ finalDiffs[i].BlockA # Nil =>
            finalDiffs[i].BlockA.ID \in MegaIDs \cup GapIDsA
       /\ finalDiffs[i].BlockB # Nil =>
            finalDiffs[i].BlockB.ID \in MegaIDs \cup GapIDsB

\* C14: all blocks created during one call (both sides of the megablocks,
\* the A gap blocks, the B gap blocks) have pairwise distinct IDs, taken
\* from one counter that no step decreases: megablock sides first, then A
\* gap blocks, then B gap blocks.
C14_BlockIDsUniqueFromOneCounter ==
  /\ []BlockIDsDistinct
  /\ [][blockGlobalIDCounter' >= blockGlobalIDCounter]_vars

\* a finished run that created two megablocks and gap blocks in both files
C14_Witness ==
  /\ Done
  /\ Len(megablockDiffs) >= 2
  /\ Len(gapBlocksA) >= 1
  /\ Len(gapBlocksB) >= 2

\* the less function of a sort orders every two elements of the slice at
\* different positions, so that one order only is a possible result
SortsOneWay(seq, mode) ==
  /\ \A i, j \in DOMAIN seq :
       i # j => Less(mode, seq[i], seq[j]) \/ Less(mode, seq[j], seq[i])
  /\ Cardinality(SortSlice(seq, mode)) = 1

LinesOfFile(content) ==
  LET ls == SplitLines(ReplaceCRLF(content))
  IN IF Len(ls) > 0 /\ ls[Len(ls)] = <<>> THEN SubSeq(ls, 1, Len(ls) - 1)
     ELSE ls

\* the lines of a run are not blank and differ from each other after
\* normalisation
DistinctLines(run) ==
  /\ \A i \in DOMAIN run : CalculateLineChecksum(run[i]) # CalculateLineChecksum(<<>>)
  /\ \A i, j \in DOMAIN run :
       i # j => CalculateLineChecksum(run[i]) # CalculateLineChecksum(run[j])

\* file A is a run of at least three lines, an empty line and a second run
\* of at least three lines; file B holds the two runs in the other order
TwoRunsSwapped ==
  LET la == LinesOfFile(rawContentA)
      lb == LinesOfFile(rawContentB)
  IN \E k \in 4..(Len(la) - 3) :
       LET p == SubSeq(la, 1, k - 1)
           q == SubSeq(la, k + 1, Len(la))
       IN /\ la[k] = <<>>
          /\ lb = q \o <<la[k]>> \o p
          /\ DistinctLines(p \o q)

\* the numbers of entries of a category in the result
CountOfType(type) ==
  Cardinality({i \in 1..Len(finalDiffs) : finalDiffs[i].Type = type})

\* C16: when file A is two runs of at least three lines and file B holds
\* the same two runs in the other order, two megablock pairs are found and
\* the result is one Unchanged entry and one Moved entry, with no Added,
\* Deleted or Modified entry.
C16_SwappedRunsOneUnchangedOneMoved ==
  (Done /\ TwoRunsSwapped) =>
    /\ Len(megablockDiffs) = 2
    /\ Len(finalDiffs) = 2
    /\ CountOfType(Unchanged) = 1
    /\ CountOfType(Moved) = 1
    /\ \A i \in 1..Len(finalDiffs) : FromMega(finalDiffs[i])

\* the finished run on H1,H2,H3,blank,X1,X2,X3 against X1,X2,X3,blank,
\* H1,H2,H3
C16_Witness ==
  /\ Done
  /\ TwoRunsSwapped
  /\ <<rawContentA, rawContentB>> = <<MoveScenario[1], MoveScenario[2]>>
  /\ \E i \in 1..Len(finalDiffs) : finalDiffs[i].Type = Moved

\* the similarity 1 - distance / max length of two normalised texts as a
\* fraction <<numerator, denominator>>
SimilarityFraction(textA, textB) ==
  IF Len(textA) = 0 /\ Len(textB) = 0 THEN <<1, 1>>
  ELSE IF Len(textA) = 0 \/ Len(textB) = 0 THEN <<0, 1>>
  ELSE LET maxLen == IF Len(textB) > Len(textA) THEN Len(textB) ELSE Len(textA)
       IN <<maxLen - ComputeDistance(textA, textB), maxLen>>

\* comparison of two fractions with positive denominators
FractionAtLeast(x, y) == x[1] * y[2] >= y[1] * x[2]

\* a gap block is eligible for semantic pairing
Eligible(block) == NumLines(block) >= MinParagraphLinesForSemanticMatch

\* the similarity of two gap blocks is at or above the threshold
MeetsThreshold(a, b) ==
  FractionAtLeast(SimilarityFraction(a.NormalizedText, b.NormalizedText),
                  SimilarityThreshold)

\* C17: A gap blocks are taken in ascending ID order and a pair once made
\* stays: when B has a single eligible gap paragraph and two eligible A gap
\* paragraphs have the same similarity to it, at or above the threshold,
\* the one with the lower ID (the lowest of the A-blocks that meet the
\* threshold) is paired with it and the other is reported Deleted.
C17_LowerIDWinsTie ==
  Done =>
    \A ib \in DOMAIN gapBlocksB :
      LET b == gapBlocksB[ib]
      IN (/\ Eligible(b)
          /\ \A jb \in DOMAIN gapBlocksB : jb # ib => ~Eligible(gapBlocksB[jb]))
         =>
         \A i1, i2 \in DOMAIN gapBlocksA :
           LET a1 == gapBlocksA[i1]
               a2 == gapBlocksA[i2]
           IN (/\ a1.ID < a2.ID
               /\ Eligible(a1) /\ Eligible(a2)
               /\ SimilarityFraction(a1.NormalizedText, b.NormalizedText)
                    = SimilarityFraction(a2.NormalizedText, b.NormalizedText)
               /\ MeetsThreshold(a1, b)
               /\ \A i0 \in DOMAIN gapBlocksA :
                    (Eligible(gapBlocksA[i0]) /\ MeetsThreshold(gapBlocksA[i0], b))
                      => gapBlocksA[i0].ID >= a1.ID)
              =>
              /\ \E k \in PairedEntries :
                   /\ finalDiffs[k].BlockA.ID = a1.ID
                   /\ finalDiffs[k].BlockB.ID = b.ID
              /\ \E k \in 1..Len(finalDiffs) :
                   /\ finalDiffs[k].Type = Deleted
                   /\ finalDiffs[k].BlockA.ID = a2.ID

\* the B gap blocks that the pairer may still give to an A-block
Candidates ==
  {j \in DOMAIN gapBlocksB :
     /\ Eligible(gapBlocksB[j])
     /\ gapBlocksB[j].ID \notin processedGapB_byID}

\* the candidates most similar to the A-block a
BestCandidates(a) ==
  {j \in Candidates :
     \A k \in Candidates :
       FractionAtLeast(
         SimilarityFraction(a.NormalizedText, gapBlocksB[j].NormalizedText),
         SimilarityFraction(a.NormalizedText, gapBlocksB[k].NormalizedText))}

\* the step of the pairer for an eligible A-block that has a candidate
\* pairs it, as a Modified entry with one of its best candidates, exactly
\* when their similarity is at or above the threshold
PairsIffThresholdMet ==
  (/\ pc = "pairing"
   /\ gapIdx <= Len(gapBlocksA)
   /\ Eligible(gapBlocksA[gapIdx])
   /\ Candidates # {})
  =>
  LET a == gapBlocksA[gapIdx]
      met == \E j \in BestCandidates(a) : MeetsThreshold(a, gapBlocksB[j])
  IN IF met
     THEN /\ Len(semanticGapMatches') = Len(semanticGapMatches) + 1
          /\ LET e == semanticGapMatches'[Len(semanticGapMatches')]
             IN /\ e.Type = Modified
                /\ e.BlockA = a
                /\ \E j \in BestCandidates(a) : e.BlockB = gapBlocksB[j]
                /\ e.Similarity = TextSimilarityNormalized(a.NormalizedText,
                                                          e.BlockB.NormalizedText)
          /\ a.ID \in processedGapA_byID'
     ELSE /\ semanticGapMatches' = semanticGapMatches
          /\ a.ID \notin processedGapA_byID'

\* C18: an eligible A gap block whose best eligible unpaired B gap block
\* has similarity s is paired with it, as a Modified entry carrying that
\* score, if and only if s >= T: a similarity equal to the threshold is
\* accepted, a lower one leaves the A-block unpaired.
C18_PairedIffAtLeastThreshold == [][PairsIffThresholdMet]_vars

(***************************************************************************)
(* The two kernels (TextSimilarityNormalized, NormalizeTextBlock) on their *)
(* own: a call takes its arguments from fnArgs and leaves its result in    *)
(* fnResult; no PerformDiff call is running.                               *)
(***************************************************************************)
\* longest text given to TextSimilarityNormalized
MaxSimLen == 3

\* longest text given to NormalizeTextBlock
MaxTextLen == 5

\* the texts of at most n characters over an alphabet
TextsOver(alphabet, n) == UNION {[1..k -> alphabet] : k \in 0..n}

SimilarityTexts == TextsOver({"a", "b", EAcute}, MaxSimLen)

NormalizeTexts == TextsOver({"a", "A", SP, NL, VT}, MaxTextLen)

\* no PerformDiff call is running
NoCall ==
  /\ rawContentA = <<>>
  /\ rawContentB = <<>>
  /\ SimilarityThreshold = DefaultThreshold
  /\ pc = "idle"
  /\ allLinesA = <<>>
  /\ allLinesB = <<>>
  /\ megablockDiffs = <<>>
  /\ blockGlobalIDCounter = 0
  /\ gapBlocksA = <<>>
  /\ gapBlocksB = <<>>
  /\ gapIdx = 0
  /\ semanticGapMatches = <<>>
  /\ processedGapA_byID = {}
  /\ processedGapB_byID = {}
  /\ finalDiffs = <<>>

callVars == <<rawContentA, rawContentB, SimilarityThreshold, pc,
              allLinesA, allLinesB, megablockDiffs, blockGlobalIDCounter,
              gapBlocksA, gapBlocksB, gapIdx, semanticGapMatches,
              processedGapA_byID, processedGapB_byID, finalDiffs>>

SimilarityInit ==
  /\ NoCall
  /\ NoCli
  /\ fnArgs \in SimilarityTexts \X SimilarityTexts
  /\ fnResult = <<>>

\* the call TextSimilarityNormalized(fnArgs[1], fnArgs[2])
ApplySimilarity ==
  /\ fnResult = <<>>
  /\ fnResult' = <<TextSimilarityNormalized(fnArgs[1], fnArgs[2])>>
  /\ UNCHANGED <<callVars, cliVars, fnArgs>>

SimilarityNext == ApplySimilarity

SimilaritySpec == SimilarityInit /\ [][SimilarityNext]_vars

NormalizeInit ==
  /\ NoCall
  /\ NoCli
  /\ fnArgs \in {<<x>> : x \in NormalizeTexts}
  /\ fnResult = <<>>

\* the call NormalizeTextBlock(x), first on the argument, then on the
\* result of the first call
ApplyNormalize ==
  /\ Len(fnResult) < 2
  /\ fnResult' = Append(fnResult,
                        NormalizeTextBlock(IF fnResult = <<>> THEN fnArgs[1]
                                           ELSE fnResult[Len(fnResult)]))
  /\ UNCHANGED <<callVars, cliVars, fnArgs>>

NormalizeNext == ApplyNormalize

NormalizeSpec == NormalizeInit /\ [][NormalizeNext]_vars

\* the Levenshtein distance by its recurrence on the ends of the two texts
RECURSIVE EditDistance(_, _)
EditDistance(a, b) ==
  IF Len(a) = 0 THEN Len(b)
  ELSE IF Len(b) = 0 THEN Len(a)
  ELSE LET a1 == SubSeq(a, 1, Len(a) - 1)
           b1 == SubSeq(b, 1, Len(b) - 1)
       IN IF a[Len(a)] = b[Len(b)] THEN EditDistance(a1, b1)
          ELSE 1 + Min2(EditDistance(a1, b1),
                        Min2(EditDistance(a1, b), EditDistance(a, b1)))

\* the longer of the two lengths of the arguments
MaxArgLen ==
  IF Len(fnArgs[2]) > Len(fnArgs[1]) THEN Len(fnArgs[2]) ELSE Len(fnArgs[1])

\* max * result - max * (1 - distance / max), in units of 2^-28
SimilarityError ==
  fnResult[1] * MaxArgLen
    - (MaxArgLen - EditDistance(fnArgs[1], fnArgs[2])) * F32One

\* the result lies in [0, 1], is 1.0 for two empty texts and 0.0 when
\* exactly one text is empty
SimilarityInRange ==
  /\ 0 <= fnResult[1] /\ fnResult[1] <= F32One
  /\ (Len(fnArgs[1]) = 0 /\ Len(fnArgs[2]) = 0) => fnResult[1] = F32One
  /\ (Len(fnArgs[1]) = 0) # (Len(fnArgs[2]) = 0) => fnResult[1] = 0

\* C19: TextSimilarityNormalized(a, b) equals
\* 1 - levenshtein(a, b) / max(|a|, |b|), lies in [0, 1], is 1.0 for two
\* empty texts and 0.0 when exactly one is empty.
C19_SimilarityIsExactQuotient ==
  fnResult # <<>> =>
    /\ SimilarityInRange
    /\ MaxArgLen > 0 => SimilarityError = 0

\* C20: NormalizeTextBlock(NormalizeTextBlock(x)) = NormalizeTextBlock(x)
\* for every text x, and the line checksum of x is the line checksum of
\* its normalised form.
C20_NormalizeIdempotent ==
  /\ Len(fnResult) = 2 => fnResult[2] = fnResult[1]
  /\ Len(fnResult) >= 1 =>
       CalculateLineChecksum(fnArgs[1]) = CalculateLineChecksum(fnResult[1])

\* the second call on a text that the first call changed in all three
\* ways: a capital lowered, a run of white space contracted, an end trimmed
C20_Witness ==
  /\ Len(fnResult) = 2
  /\ \E i \in DOMAIN fnArgs[1] : fnArgs[1][i] = "A"
  /\ \E i \in 1..(Len(fnArgs[1]) - 1) :
       fnArgs[1][i] \in RegexSpace /\ fnArgs[1][i+1] \in RegexSpace
  /\ fnArgs[1][1] = VT
  /\ Len(fnResult[1]) >= 2

(***************************************************************************)
(* The command (main.go): parsing of --focus, the checks of main before    *)
(* the call of PerformDiff, and the exit code.                             *)
(***************************************************************************)
\* longest --focus argument explored
MaxFocusLen == 4

\* the --focus arguments explored
FocusStrings == TextsOver({"0", "1", "2", ",", "-", SP, "x"}, MaxFocusLen)

\* the thresholds explored for the command: the default and two values
\* outside the accepted range
CliThresholds == {DefaultThreshold, <<6, 5>>, <<-1, 5>>}

\* strings.Split(text, ","): the pieces between the commas
SplitComma(text) ==
  LET at == Ascending({i \in 1..Len(text) : text[i] = ","})
  IN [k \in 1..(Len(at) + 1) |->
        SubSeq(text,
               IF k = 1 THEN 1 ELSE at[k-1] + 1,
               IF k > Len(at) THEN Len(text) ELSE at[k] - 1)]

Digits == {"0", "1", "2", "3", "4", "5", "6", "7", "8", "9"}

DigitValue(c) ==
  CASE c = "0" -> 0 [] c = "1" -> 1 [] c = "2" -> 2 [] c = "3" -> 3
    [] c = "4" -> 4 [] c = "5" -> 5 [] c = "6" -> 6 [] c = "7" -> 7
    [] c = "8" -> 8 [] c = "9" -> 9

\* the value of a sequence of decimal digits
RECURSIVE DecimalValue(_)
DecimalValue(ds) ==
  IF Len(ds) = 0 THEN 0
  ELSE 10 * DecimalValue(SubSeq(ds, 1, Len(ds) - 1)) + DigitValue(ds[Len(ds)])

\* strconv.Atoi: an optional sign and at least one digit, nothing else;
\* result [err, val]
Atoi(text) ==
  LET signed == Len(text) > 0 /\ text[1] \in {"+", "-"}
      ds == IF signed THEN Tail(text) ELSE text
  IN IF Len(ds) = 0 \/ \E i \in 1..Len(ds) : ds[i] \notin Digits
     THEN [err |-> TRUE, val |-> 0]
     ELSE [err |-> FALSE,
           val |-> IF signed /\ text[1] = "-" THEN -DecimalValue(ds)
                   ELSE DecimalValue(ds)]

\* the FocusRange returned for an argument that is refused
RefusedFocus == [IsSet |-> FALSE, StartLine |-> -1, EndLine |-> 0]

parseFocusRange(focusStr) ==
  IF focusStr = <<>> THEN [IsSet |-> FALSE, StartLine |-> 0, EndLine |-> 0]
  ELSE LET parts == SplitComma(focusStr)
       IN IF Len(parts) # 2 THEN RefusedFocus
          ELSE LET start == Atoi(TrimSpace(parts[1]))
                   end == Atoi(TrimSpace(parts[2]))
               IN IF start.err \/ end.err \/ start.val <= 0
                     \/ end.val < start.val
                  THEN RefusedFocus
                  ELSE [IsSet |-> TRUE, StartLine |-> start.val,
                        EndLine |-> end.val]

CliInit ==
  /\ NoCall
  /\ fnArgs = <<>>
  /\ fnResult = <<>>
  /\ FocusRangeStr \in FocusStrings
  /\ CurrentFocusRange = [IsSet |-> FALSE, StartLine |-> 0, EndLine |-> 0]
  /\ nArg \in 1..3
  /\ readError \in {"none", "A", "B"}
  /\ exitCode = -1
  /\ performDiffCalls = 0

\* the variables no step of the command changes
cliFixed ==
  <<rawContentA, rawContentB, allLinesA, allLinesB, megablockDiffs,
    blockGlobalIDCounter, gapBlocksA, gapBlocksB, gapIdx, semanticGapMatches,
    processedGapA_byID, processedGapB_byID, finalDiffs, kernelVars,
    FocusRangeStr, nArg, readError>>

\* os.Exit(code)
Exit(code) == exitCode' = code /\ pc' = "exited"

\* main, lines 361-371: the flags are parsed and a refused focus range is
\* tested for
ParseFlags ==
  /\ pc = "idle"
  /\ \E t \in CliThresholds : SimilarityThreshold' = t
  /\ CurrentFocusRange' = parseFocusRange(FocusRangeStr)
  /\ IF CurrentFocusRange'.IsSet /\ CurrentFocusRange'.StartLine = -1
     THEN Exit(1)
     ELSE pc' = "args" /\ UNCHANGED exitCode
  /\ UNCHANGED <<cliFixed, performDiffCalls>>

\* main, lines 373-382: the number of arguments and the threshold
CheckArgs ==
  /\ pc = "args"
  /\ IF nArg # 2 THEN Exit(1)
     ELSE IF SimilarityThreshold[1] < 0
             \/ SimilarityThreshold[1] > SimilarityThreshold[2]
     THEN Exit(1)
     ELSE pc' = "read" /\ UNCHANGED exitCode
  /\ UNCHANGED <<cliFixed, SimilarityThreshold, CurrentFocusRange,
                 performDiffCalls>>

\* main, lines 384-395: the two files are read
ReadFiles ==
  /\ pc = "read"
  /\ IF readError # "none" THEN Exit(1)
     ELSE pc' = "call" /\ UNCHANGED exitCode
  /\ UNCHANGED <<cliFixed, SimilarityThreshold, CurrentFocusRange,
                 performDiffCalls>>

\* main, line 409: PerformDiff is called
CallPerformDiff ==
  /\ pc = "call"
  /\ performDiffCalls' = performDiffCalls + 1
  /\ pc' = "report"
  /\ UNCHANGED <<cliFixed, SimilarityThreshold, CurrentFocusRange, exitCode>>

\* main, lines 410-end: the report is printed and main returns
Report ==
  /\ pc = "report"
  /\ Exit(0)
  /\ UNCHANGED <<cliFixed, SimilarityThreshold, CurrentFocusRange,
                 performDiffCalls>>

CliNext ==
  \/ ParseFlags
  \/ CheckArgs
  \/ ReadFiles
  \/ CallPerformDiff
  \/ Report

CliSpec == CliInit /\ [][CliNext]_vars

\* the --focus argument is malformed: it is given and is not two parts
\* separated by a comma that are integers n, m with 0 < n <= m
MalformedFocus ==
  /\ FocusRangeStr # <<>>
  /\ LET parts == SplitComma(FocusRangeStr)
     IN \/ Len(parts) # 2
        \/ Atoi(TrimSpace(parts[1])).err
        \/ Atoi(TrimSpace(parts[2])).err
        \/ Atoi(TrimSpace(parts[1])).val <= 0
        \/ Atoi(TrimSpace(parts[2])).val < Atoi(TrimSpace(parts[1])).val

\* C21: when the --focus argument is malformed, the command exits with
\* code 1 and PerformDiff is never called.
C21_MalformedFocusExitsBeforeDiff ==
  MalformedFocus =>
    /\ performDiffCalls = 0
    /\ pc = "exited" => exitCode = 1

\* lines i..i+n-1 of A and j..j+n-1 of B exist, are unconsumed and are
\* pairwise equal in checksum
IsRun(i, j, n) ==
  /\ i + n - 1 <= Len(allLinesA)
  /\ j + n - 1 <= Len(allLinesB)
  /\ \A k \in 0..(n - 1) :
       /\ ~allLinesA[i+k].IsPartOfMega
       /\ ~allLinesB[j+k].IsPartOfMega
       /\ allLinesA[i+k].Checksum = allLinesB[j+k].Checksum

\* the runs of n lines
RunsOfLength(n) ==
  {p \in (1..Len(allLinesA)) \X (1..Len(allLinesB)) : IsRun(p[1], p[2], n)}

\* there is a run of n lines
HasRun(n) ==
  \E i \in 1..Len(allLinesA), j \in 1..Len(allLinesB) : IsRun(i, j, n)

\* the greatest length of a run that is at least n, given a run of n
\* lines (a run of n+1 lines begins with a run of n lines)
RECURSIVE LongestRunFrom(_)
LongestRunFrom(n) == IF HasRun(n + 1) THEN LongestRunFrom(n + 1) ELSE n

\* the length of the longest run (0 when no two unconsumed lines are equal)
LongestRun == LongestRunFrom(0)

\* C22: a call of findNextGreedyMegaMatch returns the longest run of
\* consecutive unconsumed, fingerprint-equal line pairs; among the runs of
\* that length the one with the smallest i, then the smallest j; and it
\* reports found exactly when that length is at least 3.
C22_MegaMatchIsFirstLongestRun ==
  pc = "mega" =>
    LET m == findNextGreedyMegaMatch(allLinesA, allLinesB)
        longest == LongestRun
        runs == RunsOfLength(longest)
    IN /\ m.found <=> longest >= MinMegaBlockLength
       /\ m.found =>
            /\ m.length = longest
            /\ <<m.aStart, m.bStart>> \in runs
            /\ \A p \in runs :
                 p = <<m.aStart, m.bStart>>
                   \/ m.aStart < p[1]
                   \/ (m.aStart = p[1] /\ m.bStart < p[2])

\* a call with two longest runs of at least 3 lines from the same line of
\* A, and a run from a later line
C22_Witness ==
  /\ pc = "mega"
  /\ LongestRun >= MinMegaBlockLength
  /\ \E p, q \in RunsOfLength(LongestRun) : p[1] = q[1] /\ p[2] < q[2]
  /\ \E r \in RunsOfLength(1) :
       \A p \in RunsOfLength(LongestRun) : r[1] > p[1]

\* the megablock stage has just ended, or the call has returned
AfterMegaStage == pc \in {"gapsA", "done"}

\* C23: when the megablock stage ends, and still when the call returns,
\* there is no pair of positions from which 3 consecutive lines of A and
\* of B are all unconsumed and pairwise fingerprint-equal.
C23_NoRunLeftAfterMegaStage ==
  AfterMegaStage => RunsOfLength(MinMegaBlockLength) = {}

\* the stage has ended with two megablocks made and a run of two
\* unconsumed equal lines left
C23_Witness ==
  /\ pc = "gapsA"
  /\ Len(megablockDiffs) >= 2
  /\ RunsOfLength(2) # {}

\* the result of the j-loop for the A-block that the pairer is at
ChosenCandidate ==
  BestMatch(gapBlocksA[gapIdx], gapBlocksB, processedGapB_byID, 1,
            [block |-> Nil, sim |-> -F32One])

\* C24: only gap blocks of at least 3 lines are paired, on either side, and
\* the B-block chosen for an eligible A-block is the one of highest
\* similarity among the eligible B-blocks not yet paired, the one of lowest
\* ID when several have that similarity.
C24_ChoosesMostSimilarEligible ==
  /\ \A k \in 1..Len(semanticGapMatches) :
       /\ Eligible(semanticGapMatches[k].BlockA)
       /\ Eligible(semanticGapMatches[k].BlockB)
  /\ (/\ pc = "pairing"
      /\ gapIdx <= Len(gapBlocksA)
      /\ Eligible(gapBlocksA[gapIdx]))
     =>
     IF Candidates = {} THEN ChosenCandidate.block = Nil
     ELSE \E j \in BestCandidates(gapBlocksA[gapIdx]) :
            /\ ChosenCandidate.block = gapBlocksB[j]
            /\ \A k \in BestCandidates(gapBlocksA[gapIdx]) :
                 gapBlocksB[j].ID <= gapBlocksB[k].ID

\* the paired matches before stage 5
PairedMatches == megablockDiffs \o semanticGapMatches

\* the sets of positions of finalDiffs along which BlockB.LineStart is
\* strictly increasing
IncreasingSets ==
  {S \in SUBSET (1..Len(finalDiffs)) :
     \A i, j \in S :
       i < j => finalDiffs[i].BlockB.LineStart < finalDiffs[j].BlockB.LineStart}

\* the positions of finalDiffs that stage 5 has not made Moved
NotMoved == {i \in 1..Len(finalDiffs) : finalDiffs[i].Type # Moved}

\* C25: after stage 5 the paired matches are in the order of
\* (BlockA.LineStart, BlockA.ID); those that keep their category
\* (Unchanged for megablock pairs, Modified for semantic pairs) form a
\* strictly increasing subsequence of BlockB.LineStart values of the
\* greatest possible length, and all others are Moved, with the blocks and
\* the similarity of the pair as they were.
C25_KeptEntriesAreLongestIncreasing ==
  pc = "collect" =>
    /\ Len(finalDiffs) = Len(PairedMatches)
    /\ \A i, j \in 1..Len(finalDiffs) :
         i < j => Less("pairs", finalDiffs[i], finalDiffs[j])
    /\ \A k \in 1..Len(PairedMatches) :
         \E i \in 1..Len(finalDiffs) :
           /\ finalDiffs[i].BlockA = PairedMatches[k].BlockA
           /\ finalDiffs[i].BlockB = PairedMatches[k].BlockB
           /\ finalDiffs[i].Similarity = PairedMatches[k].Similarity
           /\ finalDiffs[i].Type \in {PairedMatches[k].Type, Moved}
    /\ NotMoved \in IncreasingSets
    /\ \A S \in IncreasingSets : Cardinality(S) <= Cardinality(NotMoved)

\* stage 5 has kept two pairs and made a third Moved, where another choice
\* of two pairs to keep was possible
C25_Witness ==
  /\ pc = "collect"
  /\ Cardinality(NotMoved) >= 2
  /\ \E i \in 1..Len(finalDiffs) : finalDiffs[i].Type = Moved
  /\ \E S \in IncreasingSets :
       S # NotMoved /\ Cardinality(S) = Cardinality(NotMoved)

\* the positions of finalDiffs whose entry holds the block
EntriesOf(block) ==
  {i \in 1..Len(finalDiffs) :
     finalDiffs[i].BlockA = block \/ finalDiffs[i].BlockB = block}

\* the pair made by stage 2 or stage 4 is in exactly one entry, which holds
\* both its blocks and has one of the two categories
PairInOneEntry(pair, types) ==
  \E i \in 1..Len(finalDiffs) :
    /\ EntriesOf(pair.BlockA) = {i}
    /\ EntriesOf(pair.BlockB) = {i}
    /\ finalDiffs[i].Type \in types

\* the gap blocks of a list that stage 4 has not paired
UnpairedBlocks(blocks, processed) ==
  {k \in 1..Len(blocks) : blocks[k].ID \notin processed}

\* the unpaired gap block is in exactly one entry, of the given category,
\* which holds no other block
AloneInOneEntry(block, type) ==
  \E i \in 1..Len(finalDiffs) :
    /\ EntriesOf(block) = {i}
    /\ finalDiffs[i].Type = type
    /\ {finalDiffs[i].BlockA, finalDiffs[i].BlockB} = {block, Nil}

\* C26: every content block is in exactly one entry of the result: a
\* megablock pair in one Unchanged or Moved entry, a semantic pair in one
\* Modified or Moved entry, an unpaired A gap block in one Deleted entry
\* and an unpaired B gap block in one Added entry; the number of entries is
\* megablocks + semantic pairs + unpaired A gap blocks + unpaired B gap
\* blocks.
C26_EveryBlockInExactlyOneEntry ==
  Done =>
    /\ \A m \in 1..Len(megablockDiffs) :
         PairInOneEntry(megablockDiffs[m], {Unchanged, Moved})
    /\ \A m \in 1..Len(semanticGapMatches) :
         PairInOneEntry(semanticGapMatches[m], {Modified, Moved})
    /\ \A k \in UnpairedBlocks(gapBlocksA, processedGapA_byID) :
         AloneInOneEntry(gapBlocksA[k], Deleted)
    /\ \A k \in UnpairedBlocks(gapBlocksB, processedGapB_byID) :
         AloneInOneEntry(gapBlocksB[k], Added)
    /\ \A k \in 1..Len(gapBlocksA) :
         gapBlocksA[k].ID \in processedGapA_byID
           => \E m \in 1..Len(semanticGapMatches) :
                semanticGapMatches[m].BlockA = gapBlocksA[k]
    /\ \A k \in 1..Len(gapBlocksB) :
         gapBlocksB[k].ID \in processedGapB_byID
           => \E m \in 1..Len(semanticGapMatches) :
                semanticGapMatches[m].BlockB = gapBlocksB[k]
    /\ Len(finalDiffs) =
         Len(megablockDiffs) + Len(semanticGapMatches)
         + Cardinality(UnpairedBlocks(gapBlocksA, processedGapA_byID))
         + Cardinality(UnpairedBlocks(gapBlocksB, processedGapB_byID))

\* a result made of a megablock pair, a semantic pair, an unpaired A gap
\* block and an unpaired B gap block
C26_Witness ==
  /\ Done
  /\ Len(megablockDiffs) >= 1
  /\ Len(semanticGapMatches) >= 1
  /\ UnpairedBlocks(gapBlocksA, processedGapA_byID) # {}
  /\ UnpairedBlocks(gapBlocksB, processedGapB_byID) # {}

\* block x is before block y in the order of (LineStart, ID)
BlockBefore(x, y) ==
  \/ x.LineStart < y.LineStart
  \/ x.LineStart = y.LineStart /\ x.ID < y.ID

\* C27: within each category of the result, entries that have an A-block
\* are in ascending order of (BlockA.LineStart, BlockA.ID), and Added
\* entries are in ascending order of (BlockB.LineStart, BlockB.ID).
C27_OrderedWithinCategory ==
  Done =>
    \A i, j \in 1..Len(finalDiffs) :
      (i < j /\ finalDiffs[i].Type = finalDiffs[j].Type) =>
        /\ (finalDiffs[i].BlockA # Nil /\ finalDiffs[j].BlockA # Nil)
             => BlockBefore(finalDiffs[i].BlockA, finalDiffs[j].BlockA)
        /\ (finalDiffs[i].Type = Added /\ finalDiffs[i].BlockA = Nil
              /\ finalDiffs[j].BlockA = Nil)
             => BlockBefore(finalDiffs[i].BlockB, finalDiffs[j].BlockB)

\* a result with two Added entries, and with two entries of one other
\* category, which have an A-block
C27_Witness ==
  /\ Done
  /\ \E i, j \in 1..Len(finalDiffs) :
       /\ i < j
       /\ finalDiffs[i].Type = Added
       /\ finalDiffs[j].Type = Added
  /\ \E i, j \in 1..Len(finalDiffs) :
       /\ i < j
       /\ finalDiffs[i].Type = finalDiffs[j].Type
       /\ finalDiffs[i].BlockA # Nil
       /\ finalDiffs[j].BlockA # Nil

\* the gap block is of the file and its range LineStart..LineEnd is a
\* range of lines of the file none of which a megablock has consumed
InsideOneGap(block, allLines, fileOrigin) ==
  /\ block.FileOrigin = fileOrigin
  /\ 1 <= block.LineStart
  /\ block.LineStart <= block.LineEnd
  /\ block.LineEnd <= Len(allLines)
  /\ \A n \in block.LineStart..block.LineEnd : ~allLines[n].IsPartOfMega
  /\ \A n \in RefLines(block) : block.LineStart <= n /\ n <= block.LineEnd

\* C28: every gap block belongs to one file and lies inside one gap: the
\* lines from its LineStart to its LineEnd are all unconsumed lines of that
\* file, so its range holds no line consumed by a megablock.
C28_GapBlockInsideOneGap ==
  /\ \A k \in 1..Len(gapBlocksA) : InsideOneGap(gapBlocksA[k], allLinesA, "A")
  /\ \A k \in 1..Len(gapBlocksB) : InsideOneGap(gapBlocksB[k], allLinesB, "B")

\* file A has a gap block before its first megablock line and another
\* after its last one
C28_Witness ==
  /\ Done
  /\ \E n \in 1..Len(allLinesA) :
       /\ allLinesA[n].IsPartOfMega
       /\ \E k \in 1..Len(gapBlocksA) : gapBlocksA[k].LineEnd < n
       /\ \E k \in 1..Len(gapBlocksA) : gapBlocksA[k].LineStart > n

\* the lines of a file that a megablock has consumed
Consumed(allLines) == {n \in 1..Len(allLines) : allLines[n].IsPartOfMega}

\* what a step does to the greedy loop: an iteration that stays in the
\* loop makes one megablock and consumes at least MinMegaBlockLength
\* lines of A and of B that were unconsumed; no step clears a consumed
\* flag; the loop is left only for stage 3; and the megablocks made are
\* never more than a third of the lines of the shorter file
GreedyLoopStep ==
  /\ (pc = "mega" /\ pc' = "mega") =>
       /\ Len(megablockDiffs') = Len(megablockDiffs) + 1
       /\ Cardinality(Consumed(allLinesA') \ Consumed(allLinesA))
            >= MinMegaBlockLength
       /\ Cardinality(Consumed(allLinesB') \ Consumed(allLinesB))
            >= MinMegaBlockLength
  /\ pc = "mega" => pc' \in {"mega", "gapsA"}
  /\ pc # "mega" => megablockDiffs' = megablockDiffs
  /\ Consumed(allLinesA) \subseteq Consumed(allLinesA')
  /\ Consumed(allLinesB) \subseteq Consumed(allLinesB')
  /\ MinMegaBlockLength * Len(megablockDiffs')
       <= Min2(Len(allLinesA'), Len(allLinesB'))

\* C29: the greedy megablock loop ends: every iteration consumes at least
\* 3 lines of A and of B that were unconsumed, a consumed flag is never
\* cleared, and the number of megablocks is at most
\* floor(min(lines of A, lines of B) / 3).
C29_GreedyLoopTerminates == [][GreedyLoopStep]_vars

\* the loop has ended after two iterations, with as many megablocks as
\* the shorter file has room for
C29_Witness ==
  /\ pc = "gapsA"
  /\ Len(megablockDiffs) >= 2
  /\ Len(megablockDiffs)
       = Min2(Len(allLinesA), Len(allLinesB)) \div MinMegaBlockLength

\* number of lines of megablock pair m, in the order in which the loop
\* made the pairs
MegaLength(m) == Len(megablockDiffs[m].BlockA.SourceLineRefs)

\* C30: the megablocks made by successive iterations of the greedy loop
\* have non-increasing lengths: a megablock made later (with a higher
\* block ID) never has more lines than one made earlier.
C30_MegablockLengthsNonIncreasing ==
  \A m, n \in 1..Len(megablockDiffs) :
    (m < n \/ megablockDiffs[m].BlockA.ID < megablockDiffs[n].BlockA.ID) =>
      /\ MegaLength(m) >= MegaLength(n)
      /\ Len(megablockDiffs[m].BlockB.SourceLineRefs) = MegaLength(m)
      /\ megablockDiffs[m].BlockA.ID < megablockDiffs[n].BlockA.ID

\* the loop has made a longer megablock and then a shorter one that lies
\* before it in file A
C30_Witness ==
  \E m, n \in 1..Len(megablockDiffs) :
    /\ m < n
    /\ MegaLength(m) > MegaLength(n)
    /\ megablockDiffs[n].BlockA.LineStart < megablockDiffs[m].BlockA.LineStart

====
